---- MODULE Spec2Model ----
(***************************************************************************)
(* Distributed spectral data engine of dedalus2: the Distributor's layout  *)
(* chain (dedalus2/data/distributor.py), the Layout shape queries, and the *)
(* Field's layout navigation (dedalus2/data/field.py).                     *)
(*                                                                         *)
(* Axes are numbered 0..D-1 as in the source; per-axis arrays (local,      *)
(* grid_space, shapes) are functions over 0..D-1.  Python lists that the   *)
(* code indexes from 0 (layouts, paths) are sequences here, so list        *)
(* position p of the source is element p+1 of the sequence.  An object     *)
(* reference to a layout is its position in Distributor.layouts.           *)
(***************************************************************************)
EXTENDS Integers, Sequences, FiniteSets, TLC

\* ------------------------------------------------------------------ bounds

\* Largest domain dimension D explored.
MaxDim == 3
\* Largest entry of the process mesh explored (entries are 2..MaxMesh).
MaxMesh == 4
\* Largest base grid size of a basis explored.
MaxN == 6
\* Largest domain dimension explored by the layout shape queries.
MaxShapeDim == 2
\* Largest number of _towards_* invocations followed inside one Field call.
MaxCalls == 4
\* Base grid size of the bases of a domain that holds a field.
FieldN == 2
\* Largest number of fields handed to a path in one call.
MaxFields == 2
\* Largest number of subbases of a compound basis.
MaxSubbases == 2
\* Largest size of a coefficient array handed to a basis.
MaxCoeffs == 3

VARIABLES
    dim,          \* Domain.dim
    mesh,         \* Distributor.mesh (squeezed), a sequence of length R
    bases,        \* Domain.bases: axis -> [kind, base_grid_size, grid_dtype, coeff_dtype, coeff_size]
    pc,           \* position of Distributor construction: "build" | "ready"
    i,            \* loop variable of _build_layouts
    local,        \* working list 'local' of _build_layouts
    grid_space,   \* working list 'grid_space' of _build_layouts
    dtype,        \* working variable 'dtype' of _build_layouts
    layouts,      \* Distributor.layouts
    paths,        \* Distributor.paths
    query,        \* last layout query: [scales, raised]
    field,        \* the Field: [exists, layout, buffer]
    op,           \* the Field call in progress or last ended
    caller,       \* the array handed to field[layout] = data: [passed, data]
    field_cache,  \* Domain._field_cache: the collected fields
    fields,       \* the list of fields handed to a path
    call          \* the basis or path call in progress or last ended

vars == <<dim, mesh, bases, pc, i, local, grid_space, dtype, layouts, paths,
          query, field, op, caller, field_cache, fields, call>>

distVars == <<dim, mesh, bases, pc, i, local, grid_space, dtype, layouts, paths>>

Axes == 0 .. (dim - 1)

\* R: number of mesh dimensions.
R == Len(mesh)

\* ------------------------------------------------------------------ bases

Kinds == {"Chebyshev", "Fourier"}

GridDtypes == {"float64", "complex128"}

\* numpy dtype.itemsize.
ItemSize(dt) == IF dt = "float64" THEN 8 ELSE 16

\* Chebyshev.set_dtype: the transform retains the data type, coeff_size = N.
ChebyshevSetDtype(N, gd) ==
    [kind |-> "Chebyshev", base_grid_size |-> N, grid_dtype |-> gd,
     coeff_dtype |-> gd, coeff_size |-> N]

\* Fourier.set_dtype: complex coefficients; the Nyquist mode is discarded.
FourierSetDtype(N, gd) ==
    LET kmax == (N - 1) \div 2
    IN [kind |-> "Fourier", base_grid_size |-> N, grid_dtype |-> gd,
        coeff_dtype |-> "complex128",
        coeff_size |-> IF gd = "float64" THEN kmax + 1 ELSE 2 * kmax + 1]

SetDtype(kind, N, gd) ==
    IF kind = "Chebyshev" THEN ChebyshevSetDtype(N, gd) ELSE FourierSetDtype(N, gd)

\* Domain.__init__: the grid dtype is threaded through the bases in order,
\* each basis receiving the coefficient dtype of the one before it.
RECURSIVE ThreadDtype(_, _, _, _)
ThreadDtype(kinds, sizes, gd, d) ==
    IF d \notin DOMAIN kinds THEN << >>
    ELSE LET b == SetDtype(kinds[d], sizes[d], gd)
         IN <<b>> \o ThreadDtype(kinds, sizes, b.coeff_dtype, d + 1)

\* Mutant: every basis is handed the grid dtype of the domain.
DomainBases_Unthreaded(kinds, sizes, gd) ==
    [d \in DOMAIN kinds |-> SetDtype(kinds[d], sizes[d], gd)]

\* Domain.__init__: the bases with their dtypes set, the first from the grid
\* dtype of the domain.
DomainBases(kinds, sizes, gd) ==
    LET s == ThreadDtype(kinds, sizes, gd, 0)
    IN [d \in DOMAIN kinds |-> s[d + 1]]

\* ------------------------------------------------------------------ layouts

\* Layout.__init__: ext_mesh is 1 on local axes and takes the mesh entries, in
\* order, on the distributed axes.
ExtMesh(loc, m) ==
    [d \in DOMAIN loc |->
        IF loc[d] THEN 1
        ELSE LET r == Cardinality({e \in DOMAIN loc : e < d /\ ~loc[e]}) + 1
             IN IF r <= Len(m) THEN m[r] ELSE 1]

\* Layout.__init__: ext_coords is 0 on local axes and takes the rank's
\* cartesian coordinates, in order, on the distributed axes.
ExtCoords(loc, coords) ==
    [d \in DOMAIN loc |->
        IF loc[d] THEN 0
        ELSE LET r == Cardinality({e \in DOMAIN loc : e < d /\ ~loc[e]}) + 1
             IN IF r <= Len(coords) THEN coords[r] ELSE 0]

\* Layout.__init__: the lists are frozen into arrays of the layout's own.
Layout(loc, gs, dt, m) ==
    [local |-> loc, grid_space |-> gs, dtype |-> dt, ext_mesh |-> ExtMesh(loc, m),
     index |-> -1]

\* Mutant: a layout keeps the lists themselves, so every stored layout follows
\* the working lists.
StoredLayouts_Aliased(ls, loc, gs) ==
    [k \in 1 .. Len(ls) |-> [ls[k] EXCEPT !.local = loc, !.grid_space = gs]]

\* Layout.__init__, 'np.array(local)' and 'np.array(grid_space)': a layout holds
\* copies, so the layouts stored so far (ls) do not follow the later writes of
\* _build_layouts to its working lists (loc, gs).
StoredLayouts(ls, loc, gs) == ls

\* Transform.__init__ / Transpose.__init__: layout0 and layout1 are references
\* (positions in Distributor.layouts).
Transform(l0, l1, axis) ==
    [kind |-> "Transform", layout0 |-> l0, layout1 |-> l1, axis |-> axis]

Transpose(l0, l1, axis) ==
    [kind |-> "Transpose", layout0 |-> l0, layout1 |-> l1, axis |-> axis]

\* ------------------------------------------------------------------ construction

\* The axes still in coefficient space.
CoeffAxes(gs) == {d \in DOMAIN gs : ~gs[d]}

\* Mutant: the bases are scanned forwards, taking the first coefficient axis.
LastCoeffAxis_Forward(gs) == CHOOSE d \in CoeffAxes(gs) : \A e \in CoeffAxes(gs) : d <= e

\* rev_enumerate(domain.bases) with 'if not grid_space[d]': the last axis that
\* is still in coefficient space.
LastCoeffAxis(gs) == CHOOSE d \in CoeffAxes(gs) : \A e \in CoeffAxes(gs) : e <= d

\* Mutant: one axis too many is distributed in the first layout.
FirstLocal_OffByOne(D, r) == [d \in 0 .. (D - 1) |-> d > r]

\* First layout of _build_layouts: full coefficient space.
FirstLocal(D, r) == [d \in 0 .. (D - 1) |-> d >= r]

FirstGridSpace(D) == [d \in 0 .. (D - 1) |-> FALSE]

\* Mutant: every pass transforms, whether the axis is local or not.
StepIsTransform_Always(loc, gs) == TRUE

\* The branch taken by one pass of the loop body.
StepIsTransform(loc, gs) == loc[LastCoeffAxis(gs)]

\* 'grid_space[d] = True' of the transform branch.
TransformGridSpace(gs, d) == [gs EXCEPT ![d] = TRUE]

\* 'local[d] = True; local[d+1] = False' of the transpose branch.
TransposeLocal(loc, d) ==
    [e \in DOMAIN loc |-> IF e = d THEN TRUE ELSE IF e = d + 1 THEN FALSE ELSE loc[e]]

\* Mutant: the path starts from the first layout, 'self.layouts[0]'.
LastLayoutRef_First(ls) == 0

\* 'self.layouts[-1]' as a reference: the position of the last layout.
LastLayoutRef(ls) == Len(ls) - 1

\* No Field call has been made; a call is [name, state, target, axis, calls,
\* error], state being "running", "returned" or "raised" and calls the number
\* of _towards_* invocations made by the call so far.
NoCall ==
    [name |-> "none", state |-> "returned", target |-> 0, axis |-> 0, calls |-> 0,
     error |-> "none"]

\* No basis or path call has been made.
NoBasisCall == [name |-> "none"]

\* No array is held by a caller.
NoArray == [passed |-> << >>, data |-> << >>]

\* The lists of basis kinds a domain is built from: every list, or only the
\* lists whose bases are all of one kind.
KindChoices(D, uniform) ==
    IF uniform THEN {[d \in 0 .. (D - 1) |-> k] : k \in Kinds}
    ELSE [0 .. (D - 1) -> Kinds]

\* Distributor.__init__ followed by the head of _build_layouts: the mesh has
\* passed the compatibility checks, layout_0 is stored, the path list is empty.
\* The bases of a domain share one base grid size N.
InitDomain(Ds, meshSizes, uniform, sizeSet) ==
    /\ dim \in Ds
    /\ mesh \in UNION {[1 .. r -> meshSizes] : r \in 0 .. (dim - 1)}
    /\ \E kinds \in KindChoices(dim, uniform), N \in sizeSet, gd \in GridDtypes :
          bases = DomainBases(kinds, [d \in 0 .. (dim - 1) |-> N], gd)
    /\ pc = "build"
    /\ i = 1
    /\ local = FirstLocal(dim, Len(mesh))
    /\ grid_space = FirstGridSpace(dim)
    /\ dtype = bases[dim - 1].coeff_dtype
    /\ layouts = <<[Layout(local, grid_space, dtype, mesh) EXCEPT !.index = 0]>>
    /\ paths = << >>
    /\ query = [scales |-> << >>, raised |-> FALSE]
    /\ field = [exists |-> FALSE, layout |-> 0, buffer |-> << >>]
    /\ op = NoCall
    /\ caller = NoArray
    /\ field_cache = << >>
    /\ fields = << >>

\* The domain with no basis or path call made.
InitWith(Ds, meshSizes, uniform, sizeSet) ==
    /\ InitDomain(Ds, meshSizes, uniform, sizeSet)
    /\ call = NoBasisCall

Init == InitWith(1 .. MaxDim, 2 .. MaxMesh, FALSE, {MaxN})

\* One pass of the 'for i in range(1, R+D+1)' loop of _build_layouts; the pass
\* with i = R+D also ends the construction.
BuildLayoutsStep ==
    /\ pc = "build"
    /\ i <= R + dim
    /\ CoeffAxes(grid_space) # {}
    /\ LET d == LastCoeffAxis(grid_space)
           transform == StepIsTransform(local, grid_space)
           gs1 == IF transform THEN TransformGridSpace(grid_space, d) ELSE grid_space
           loc1 == IF transform THEN local ELSE TransposeLocal(local, d)
           dt1 == IF transform THEN bases[d].grid_dtype ELSE dtype
           layout_i == [Layout(loc1, gs1, dt1, mesh) EXCEPT !.index = i]
           l0 == LastLayoutRef(layouts)
           l1 == Len(layouts)
           path_i == IF transform THEN Transform(l0, l1, d) ELSE Transpose(l0, l1, d)
       IN /\ grid_space' = gs1
          /\ local' = loc1
          /\ dtype' = dt1
          /\ layouts' = Append(StoredLayouts(layouts, loc1, gs1), layout_i)
          /\ paths' = Append(paths, path_i)
    /\ i' = i + 1
    /\ pc' = IF i = R + dim THEN "ready" ELSE "build"
    /\ UNCHANGED <<field_cache, fields, call, dim, mesh, bases, query, field, op, caller>>

\* Distributor.coeff_layout, grid_layout and layout_references, set when the
\* loop has ended.
coeff_layout == 0

grid_layout == Len(layouts) - 1

LayoutNames == {"c", "g", "coeff", "grid"}

layout_references ==
    [n \in LayoutNames |-> IF n \in {"c", "coeff"} THEN coeff_layout ELSE grid_layout]

\* The layout object behind a reference.
LayoutAt(ref) == layouts[ref + 1]

\* ------------------------------------------------------------------ layout queries

\* Scales are rationals, written <<numerator, denominator>>.
ScaleSet == {<<1, 1>>, <<3, 2>>}

\* Mutant: no scaled grid size is refused.
GridSizeRaises_Rounds(N, scale) == FALSE

\* Basis.grid_size raises ValueError when scale * base_grid_size is no integer.
GridSizeRaises(N, scale) == (scale[1] * N) % scale[2] # 0

\* Basis.grid_size: int(float(scale) * base_grid_size).
GridSize(N, scale) == (scale[1] * N) \div scale[2]

\* Domain.global_coeff_shape along axis d: the coefficient size of the basis.
GlobalCoeffExtent(d) == bases[d].coeff_size

\* Domain.global_grid_shape(scales) along axis d: the scaled grid size of the
\* basis.
GlobalGridExtent(scales, d) == GridSize(bases[d].base_grid_size, scales[d])

\* Domain.global_coeff_shape.
GlobalCoeffShape == [d \in Axes |-> GlobalCoeffExtent(d)]

\* Domain.global_grid_shape(scales).
GlobalGridShape(scales) == [d \in Axes |-> GlobalGridExtent(scales, d)]

\* Layout.global_shape along axis d: the coefficient size, replaced by the grid
\* size when the axis is in grid space.
GlobalExtent(l, scales, d) ==
    IF l.grid_space[d] THEN GlobalGridExtent(scales, d) ELSE GlobalCoeffExtent(d)

\* Layout.global_shape.
GlobalShape(l, scales) == [d \in Axes |-> GlobalExtent(l, scales, d)]

\* Layout.blocks, one axis: np.ceil(global_shape / ext_mesh).
BlockSize(G, m) == (G + m - 1) \div m

\* Layout.blocks along axis d.
BlockAt(l, scales, d) == BlockSize(GlobalExtent(l, scales, d), l.ext_mesh[d])

\* Layout.blocks.
Blocks(l, scales) == [d \in Axes |-> BlockAt(l, scales, d)]

\* Mutant: the rank at the cut keeps a full block.
LocalExtent_FullCut(G, block, coord) ==
    LET cut == G \div block
    IN IF coord > cut THEN 0 ELSE block

\* Layout.local_shape, one axis: a full block below the cut, the remainder at
\* the cut, nothing past it.
LocalExtent(G, block, coord) ==
    LET cut == G \div block
    IN IF coord > cut THEN 0
       ELSE IF coord = cut THEN G - cut * block
       ELSE block

\* Layout.local_shape along axis d, for the extended coordinates ec of the rank.
LocalAt(l, scales, ec, d) ==
    LocalExtent(GlobalExtent(l, scales, d), BlockAt(l, scales, d), ec[d])

\* Mutant: the start is counted in local extents instead of blocks.
StartAt_Local(l, scales, ec, d) == ec[d] * LocalAt(l, scales, ec, d)

\* Layout.start along axis d, for the extended coordinates ec of the rank.
StartAt(l, scales, ec, d) == ec[d] * BlockAt(l, scales, d)

\* Layout.start.
Start(l, scales, coords) ==
    [d \in Axes |-> StartAt(l, scales, ExtCoords(l.local, coords), d)]

\* Layout.local_shape.
LocalShape(l, scales, coords) ==
    LET ec == ExtCoords(l.local, coords)
    IN [d \in Axes |-> LocalAt(l, scales, ec, d)]

\* Layout.slices along axis d: the pair (start, stop) of slice(s, s+l).
SliceAt(l, scales, ec, d) ==
    <<StartAt(l, scales, ec, d), StartAt(l, scales, ec, d) + LocalAt(l, scales, ec, d)>>

\* Layout.slices.
Slices(l, scales, coords) ==
    [d \in Axes |-> SliceAt(l, scales, ExtCoords(l.local, coords), d)]

\* np.prod of a per-axis array.
RECURSIVE ProdFrom(_, _)
ProdFrom(shape, d) ==
    IF d \notin DOMAIN shape THEN 1 ELSE shape[d] * ProdFrom(shape, d + 1)

Prod(shape) == ProdFrom(shape, 0)

\* Layout.buffer_size: np.prod(local_shape) * dtype.itemsize.
LayoutBufferSize(l, scales, coords) ==
    Prod(LocalShape(l, scales, coords)) * ItemSize(l.dtype)

\* max(...) over a non-empty set of integers.
MaxOf(S) == CHOOSE x \in S : \A y \in S : y <= x

\* Mutant: only the coefficient layout is measured.
DistributorBufferSize_CoeffOnly(scales, coords) ==
    LayoutBufferSize(layouts[1], scales, coords)

\* Distributor.buffer_size: the largest buffer size over all layouts.
DistributorBufferSize(scales, coords) ==
    MaxOf({LayoutBufferSize(layouts[k], scales, coords) : k \in 1 .. Len(layouts)})

\* The cartesian coordinates of the ranks of the mesh (comm_cart.coords).
Ranks == {c \in [1 .. R -> 0 .. (MaxOf({1} \cup {mesh[r] : r \in 1 .. R}) - 1)] :
             \A r \in 1 .. R : c[r] < mesh[r]}

\* A call of distributor.buffer_size(scales), which runs every layout's
\* buffer_size, local_shape, blocks and global_shape for these scales; the
\* results are memoised (CachedMethod) under the scales, so one call per
\* behaviour covers every call with these scales.
Query ==
    /\ pc = "ready"
    /\ query.scales = << >>
    /\ \E scales \in [Axes -> ScaleSet] :
          query' = [scales |-> scales,
                    raised |-> \E d \in Axes :
                                  GridSizeRaises(bases[d].base_grid_size, scales[d])]
    /\ UNCHANGED <<field_cache, fields, call, dim, mesh, bases, pc, i, local, grid_space, dtype, layouts, paths,
                   field, op, caller>>

\* The queries answered: the scales are set and no grid size was refused.
Answered == pc = "ready" /\ query.scales # << >> /\ ~query.raised

\* ------------------------------------------------------------------ mesh

\* 'i > 1' of the squeeze.
MeshEntryKept(m) == m > 1

\* [i for i in mesh if (i > 1)]
SqueezeMesh(m) == SelectSeq(m, MeshEntryKept)

\* np.prod(self.mesh)
RECURSIVE MeshProd(_)
MeshProd(m) == IF m = << >> THEN 1 ELSE Head(m) * MeshProd(Tail(m))

\* The compatibility checks made on the mesh as given.
MeshAccepted_ChecksUnsqueezed(D, raw, m, size) == Len(raw) < D /\ MeshProd(raw) = size

\* The squeezed mesh m has passed both compatibility checks.
MeshAccepted(D, raw, m, size) == Len(m) < D /\ MeshProd(m) = size

\* Distributor(domain, mesh) is about to be constructed on 'size' processes.
InitMesh ==
    /\ dim \in 1 .. MaxShapeDim
    /\ mesh \in UNION {[1 .. r -> 0 .. MaxMesh] : r \in 0 .. MaxDim}
    /\ \E kinds \in KindChoices(dim, TRUE), gd \in GridDtypes :
          bases = DomainBases(kinds, [d \in 0 .. (dim - 1) |-> FieldN], gd)
    /\ \E size \in 1 .. MaxMesh :
          call = [name |-> "Distributor", mesh |-> mesh, size |-> size,
                  comm_cart |-> "none", error |-> "none"]
    /\ pc = "init"
    /\ i = 0
    /\ local = FirstGridSpace(dim)
    /\ grid_space = FirstGridSpace(dim)
    /\ dtype = bases[dim - 1].coeff_dtype
    /\ layouts = << >>
    /\ paths = << >>
    /\ query = [scales |-> << >>, raised |-> FALSE]
    /\ field = [exists |-> FALSE, layout |-> 0, buffer |-> << >>]
    /\ op = NoCall
    /\ caller = NoArray
    /\ field_cache = << >>
    /\ fields = << >>

\* Distributor.__init__ up to the loop of _build_layouts: the mesh is squeezed
\* and checked; a failed check raises before the cartesian communicator is
\* created; otherwise the communicator is created and layout_0 stored.
DistributorInit ==
    /\ pc = "init"
    /\ LET m == SqueezeMesh(mesh)
       IN /\ mesh' = m
          /\ IF ~MeshAccepted(dim, mesh, m, call.size)
             THEN /\ pc' = "failed"
                  /\ call' = [call EXCEPT !.error = "ValueError"]
                  /\ UNCHANGED <<i, local, grid_space, dtype, layouts>>
             ELSE /\ pc' = "build"
                  /\ call' = [call EXCEPT !.comm_cart = m]
                  /\ i' = 1
                  /\ local' = FirstLocal(dim, Len(m))
                  /\ grid_space' = FirstGridSpace(dim)
                  /\ dtype' = bases[dim - 1].coeff_dtype
                  /\ layouts' = <<[Layout(FirstLocal(dim, Len(m)), FirstGridSpace(dim),
                                          bases[dim - 1].coeff_dtype, m)
                                     EXCEPT !.index = 0]>>
    /\ UNCHANGED <<dim, bases, paths, query, field, op, caller, field_cache, fields>>

\* ------------------------------------------------------------------ resize

\* Arrays of n elements along the transformed axis.
ArraysOf(n) == [1 .. n -> {0, 1}]

\* The mode m (0-based) of a coefficient array.
Mode(a, m) == a[m + 1]

\* Chebyshev._resize_coeffs with the padding left as the output array held it.
ResizeCoeffs_NoZeroPad(cdata_in, cdata_out) ==
    [cdata_in |-> cdata_in,
     cdata_out |-> [m \in 1 .. Len(cdata_out) |->
                      IF m <= Len(cdata_in) THEN cdata_in[m] ELSE cdata_out[m]]]

\* Chebyshev._resize_coeffs(cdata_in, cdata_out, axis), along the axis: the
\* two arrays after the call.  A longer output takes the input and zeros at
\* the end, a shorter one the leading part of the input, an equal one a copy.
ResizeCoeffs(cdata_in, cdata_out) ==
    LET size_in == Len(cdata_in)
        size_out == Len(cdata_out)
    IN [cdata_in |-> cdata_in,
        cdata_out |->
          IF size_in < size_out
          THEN [m \in 1 .. size_out |-> IF m <= size_in THEN cdata_in[m] ELSE 0]
          ELSE IF size_in > size_out
          THEN [m \in 1 .. size_out |-> cdata_in[m]]
          ELSE cdata_in]

\* A coefficient array of size N is to be resized to size S and back.
InitResize ==
    /\ InitDomain({1}, {2}, TRUE, {MaxN})
    /\ \E N \in 1 .. MaxCoeffs, S \in 1 .. MaxCoeffs + 1 :
          \E a \in ArraysOf(N) :
             call = [name |-> "resize", step |-> 0, S |-> S, original |-> a,
                     cdata_in |-> a, resized |-> << >>, back |-> << >>]

\* _resize_coeffs from size N to size S, into an output array of any content.
ResizeTo ==
    /\ call.name = "resize" /\ call.step = 0
    /\ \E out \in ArraysOf(call.S) :
          LET r == ResizeCoeffs(call.cdata_in, out)
          IN call' = [call EXCEPT !.step = 1, !.cdata_in = r.cdata_in,
                                  !.resized = r.cdata_out]
    /\ UNCHANGED <<distVars, query, field, op, caller, field_cache, fields>>

\* _resize_coeffs from size S back to size N, into an output array of any
\* content.
ResizeBack ==
    /\ call.name = "resize" /\ call.step = 1
    /\ \E out \in ArraysOf(Len(call.original)) :
          LET r == ResizeCoeffs(call.resized, out)
          IN call' = [call EXCEPT !.step = 2, !.resized = r.cdata_in,
                                  !.back = r.cdata_out]
    /\ UNCHANGED <<distVars, query, field, op, caller, field_cache, fields>>

NextResize == ResizeTo \/ ResizeBack

SpecResize == InitResize /\ [][NextResize]_vars

\* ------------------------------------------------------------------ grid size

\* The scales a grid size is asked for: binary fractions, whose product with
\* the base grid size is exact in floating point.
GridScales == {<<1, 2>>, <<1, 1>>, <<5, 4>>, <<3, 2>>, <<2, 1>>}

\* A basis of every base grid size 1 .. MaxN is asked for a scaled grid size.
InitGridSize ==
    /\ InitDomain({1}, {2}, TRUE, 1 .. MaxN)
    /\ \E scale \in GridScales :
          call = [name |-> "args", scale |-> scale, error |-> "none", grid_size |-> 0]

\* Basis.grid_size(scale): ValueError when float(scale) * base_grid_size is
\* not an integer, that integer otherwise.
BasisGridSize ==
    /\ call.name = "args"
    /\ call' = IF GridSizeRaises(bases[0].base_grid_size, call.scale)
               THEN [call EXCEPT !.name = "grid_size", !.error = "ValueError"]
               ELSE [call EXCEPT !.name = "grid_size",
                                 !.grid_size = GridSize(bases[0].base_grid_size, call.scale)]
    /\ UNCHANGED <<distVars, query, field, op, caller, field_cache, fields>>

NextGridSize == BasisGridSize

SpecGridSize == InitGridSize /\ [][NextGridSize]_vars

\* ------------------------------------------------------------------ Fourier resize

\* The stop of a slice left open (None).
ToEnd == 99

\* A slice bound on an axis of n entries as Python resolves it: a negative
\* bound counts from the end, 0 (and so -0) is the start, and the result is
\* clipped to 0 .. n.
SliceBound(b, n) ==
    IF b = ToEnd THEN n
    ELSE IF b < 0 THEN (IF n + b < 0 THEN 0 ELSE n + b)
    ELSE IF b > n THEN n ELSE b

\* axslice(axis, start, stop) applied to an axis of n entries: the positions
\* (from 1) of the entries start .. stop - 1, none when stop <= start.
AxSlice(start, stop, n) ==
    LET a == SliceBound(start, n)
        b == SliceBound(stop, n)
    IN [j \in 1 .. (IF b > a THEN b - a ELSE 0) |-> a + j]

\* np.copyto(dst[into], src): src is broadcast to the sliced shape, which
\* along the axis works for equal lengths and for a src of length 1 and
\* raises ValueError otherwise.
CopyTo(dst, into, src) ==
    IF Len(src) = Len(into)
    THEN [error |-> "none",
          data |-> [j \in 1 .. Len(dst) |->
                      IF \E n \in 1 .. Len(into) : into[n] = j
                      THEN src[CHOOSE n \in 1 .. Len(into) : into[n] = j]
                      ELSE dst[j]]]
    ELSE IF Len(src) = 1
    THEN [error |-> "none",
          data |-> [j \in 1 .. Len(dst) |->
                      IF \E n \in 1 .. Len(into) : into[n] = j THEN src[1] ELSE dst[j]]]
    ELSE [error |-> "ValueError", data |-> dst]

\* The entries of an array at the positions of a slice.
Sliced(a, at) == [n \in 1 .. Len(at) |-> a[at[n]]]

\* Fourier._resize_complex_coeffs along the axis: kmax from the smaller size,
\* the three slices posfreq, badfreq and negfreq, and the three copies in
\* order; a copy that raises ends the call.
ResizeComplexCoeffs(cdata_in, cdata_out) ==
    LET kmax == ((IF Len(cdata_in) < Len(cdata_out) THEN Len(cdata_in)
                  ELSE Len(cdata_out)) - 1) \div 2
        pos == CopyTo(cdata_out, AxSlice(0, kmax + 1, Len(cdata_out)),
                      Sliced(cdata_in, AxSlice(0, kmax + 1, Len(cdata_in))))
        bad == CopyTo(pos.data, AxSlice(kmax + 1, 0 - kmax, Len(cdata_out)), <<0>>)
        neg == CopyTo(bad.data, AxSlice(0 - kmax, ToEnd, Len(cdata_out)),
                      Sliced(cdata_in, AxSlice(0 - kmax, ToEnd, Len(cdata_in))))
    IN IF pos.error # "none" THEN pos
       ELSE IF bad.error # "none" THEN bad
       ELSE neg

\* The input of a complex resize: mode j of the input holds 10 + j, and the
\* output array holds what an earlier use left in it.
InitResizeComplex ==
    /\ InitDomain({1}, {2}, TRUE, {MaxN})
    /\ \E size_in \in 1 .. (MaxCoeffs + 1), size_out \in 1 .. (MaxCoeffs + 1),
          stale \in {0, 9} :
          call = [name |-> "args",
                  cdata_in |-> [j \in 1 .. size_in |-> 10 + j],
                  cdata_out |-> [j \in 1 .. size_out |-> stale],
                  error |-> "none"]

\* self._resize_complex_coeffs(cdata_in, cdata_out, axis)
ResizeComplex ==
    /\ call.name = "args"
    /\ LET r == ResizeComplexCoeffs(call.cdata_in, call.cdata_out)
       IN call' = [call EXCEPT !.name = "resize_complex", !.cdata_out = r.data,
                               !.error = r.error]
    /\ UNCHANGED <<distVars, query, field, op, caller, field_cache, fields>>

NextResizeComplex == ResizeComplex

SpecResizeComplex == InitResizeComplex /\ [][NextResizeComplex]_vars

\* ------------------------------------------------------------------ check_arrays

\* An argument left at None, and a provided array of an extent along the axis
\* and a dtype.
NoneArray == [given |-> FALSE, size |-> 0, dtype |-> "none"]

ProvidedArrays ==
    {[given |-> TRUE, size |-> n, dtype |-> dt] : n \in 1 .. MaxCoeffs + 1, dt \in GridDtypes}

\* scale=None
NoScale == << >>

\* Basis.check_arrays with the dtype of cdata left unchecked.
CheckArrays_NoCdataDtype(b, cdata, gdata, scale) ==
    IF cdata.given /\ cdata.size # b.coeff_size THEN "cdata does not match coeff_size"
    ELSE IF scale # NoScale /\ GridSizeRaises(b.base_grid_size, scale)
    THEN "Scaled grid size is not an integer"
    ELSE IF ~gdata.given /\ scale = NoScale THEN "UnboundLocalError"
    ELSE IF gdata.given /\ scale # NoScale /\ gdata.size # GridSize(b.base_grid_size, scale)
    THEN "gdata does not match scaled grid_size"
    ELSE IF gdata.given /\ gdata.dtype # b.grid_dtype THEN "gdata does not match grid_dtype"
    ELSE "none"

\* Basis.check_arrays(cdata, gdata, axis, scale): the error it raises, "none"
\* when it returns.  cdata is checked when provided; the grid size is computed
\* when a scale is given; gdata is built from it when not provided, and
\* otherwise its extent is checked when a scale is given, and its dtype always.
CheckArrays(b, cdata, gdata, scale) ==
    IF cdata.given /\ cdata.size # b.coeff_size THEN "cdata does not match coeff_size"
    ELSE IF cdata.given /\ cdata.dtype # b.coeff_dtype THEN "cdata does not match coeff_dtype"
    ELSE IF scale # NoScale /\ GridSizeRaises(b.base_grid_size, scale)
    THEN "Scaled grid size is not an integer"
    ELSE IF ~gdata.given /\ scale = NoScale THEN "UnboundLocalError"
    ELSE IF gdata.given /\ scale # NoScale /\ gdata.size # GridSize(b.base_grid_size, scale)
    THEN "gdata does not match scaled grid_size"
    ELSE IF gdata.given /\ gdata.dtype # b.grid_dtype THEN "gdata does not match grid_dtype"
    ELSE "none"

\* A basis of the domain is about to transform the arrays of a caller.
InitTransformCall ==
    /\ InitDomain({1}, {2}, TRUE, 1 .. MaxCoeffs)
    /\ \E cdata \in {NoneArray} \cup ProvidedArrays, gdata \in {NoneArray} \cup ProvidedArrays,
          scale \in ScaleSet :
          call = [name |-> "args", cdata |-> cdata, gdata |-> gdata, scale |-> scale,
                  error |-> "none", written |-> FALSE]

\* basis.forward(gdata, axis=axis, cdata=cdata): check_arrays without a scale
\* is the first statement; the transform then writes cdata.
BasisForward ==
    /\ call.name = "args"
    /\ call.gdata.given
    /\ LET error == CheckArrays(bases[0], call.cdata, call.gdata, NoScale)
       IN call' = [call EXCEPT !.name = "forward", !.error = error,
                               !.written = (error = "none")]
    /\ UNCHANGED <<distVars, query, field, op, caller, field_cache, fields>>

\* basis.backward(cdata, axis=axis, gdata=gdata, scale=scale): check_arrays
\* with the scale is the first statement; the transform then writes gdata.
BasisBackward ==
    /\ call.name = "args"
    /\ call.cdata.given
    /\ LET error == CheckArrays(bases[0], call.cdata, call.gdata, call.scale)
       IN call' = [call EXCEPT !.name = "backward", !.error = error,
                               !.written = (error = "none")]
    /\ UNCHANGED <<distVars, query, field, op, caller, field_cache, fields>>

NextTransformCall == BasisForward \/ BasisBackward

SpecTransformCall == InitTransformCall /\ [][NextTransformCall]_vars

\* ------------------------------------------------------------------ compound

\* The subbases of a compound basis: k adjacent intervals of length 2, the
\* first starting at 0, each with its coefficient size.
SubbasisLists ==
    UNION {[1 .. k -> {[coeff_size |-> n] : n \in 1 .. 2}] : k \in 1 .. MaxSubbases}

\* basis.interval of the subbasis at (0-based) index.
Interval(index) == <<2 * index, 2 * index + 2>>

\* Compound.coeff_start(index), a method:
\* sum(b.coeff_size for b in self.subbases[:index]).
RECURSIVE CoeffStart(_, _)
CoeffStart(subbases, index) ==
    IF index = 0 THEN 0
    ELSE subbases[index].coeff_size + CoeffStart(subbases, index - 1)

\* Compound.coeff_size: the sum of the subbasis coefficient sizes.
CompoundCoeffSize(subbases) == CoeffStart(subbases, Len(subbases))

\* b.interp_vector(position) of the subbasis at index: a row of coeff_size
\* values, none of them zero here, that depend on the subbasis, the mode and
\* the position.
SubInterpVector(subbases, index, position) ==
    [n \in 1 .. subbases[index + 1].coeff_size |-> 100 * (index + 1) + 10 * n + position + 1]

\* 'self.coeff_start[i]': coeff_start is a method, and subscripting a method
\* raises TypeError.
CoeffStartSubscript(subbases, index) == "TypeError"

\* Compound.interp_vector(position): the loop takes the first subbasis whose
\* closed interval holds the position and subscripts coeff_start for the block
\* of that subbasis; without such a subbasis it raises ValueError.
RECURSIVE CompoundInterpVector(_, _, _)
CompoundInterpVector(subbases, position, index) ==
    IF index = Len(subbases)
    THEN [error |-> "ValueError", vector |-> << >>]
    ELSE IF Interval(index)[1] <= position /\ position <= Interval(index)[2]
    THEN [error |-> CoeffStartSubscript(subbases, index), vector |-> << >>]
    ELSE CompoundInterpVector(subbases, position, index + 1)

\* A compound basis is asked for its interpolation vector at a position.
InitInterp ==
    /\ InitDomain({1}, {2}, TRUE, {MaxN})
    /\ \E subbases \in SubbasisLists :
          \E position \in (0 - 1) .. (2 * Len(subbases) + 1) :
             call = [name |-> "args", subbases |-> subbases, position |-> position,
                     error |-> "none", vector |-> << >>]

InterpVector ==
    /\ call.name = "args"
    /\ LET r == CompoundInterpVector(call.subbases, call.position, 0)
       IN call' = [call EXCEPT !.name = "interp_vector", !.error = r.error,
                               !.vector = r.vector]
    /\ UNCHANGED <<distVars, query, field, op, caller, field_cache, fields>>

NextInterp == InterpVector

SpecInterp == InitInterp /\ [][NextInterp]_vars

\* ------------------------------------------------------------------ field

\* Element values of field data.
Values == {0, 1}

\* The buffer is followed in words of 8 bytes: the item size of every dtype is
\* a whole number of words.
WordBytes == 8

\* The transform scales of the field: the base grid on every axis.
FieldScales == [d \in Axes |-> <<1, 1>>]

\* The mesh coordinates of the process: the origin of the mesh.
FieldCoords == [r \in 1 .. R |-> 0]

\* Length of 'self._buffer': distributor.buffer_size, in words.
BufferWords == DistributorBufferSize(FieldScales, FieldCoords) \div WordBytes

\* Length of the typed view of the buffer in a layout: layout.buffer_size, in
\* words.
ViewWords(layout) ==
    LayoutBufferSize(LayoutAt(layout), FieldScales, FieldCoords) \div WordBytes

\* The arrays a caller hands over for a layout: of the size of the view.
Arrays(layout) == {[w \in 1 .. ViewWords(layout) |-> v] : v \in Values}

\* np.zeros: the buffer of a new field.
Zeros == [w \in 1 .. BufferWords |-> 0]

\* layout.view_data(buffer): the typed view of the buffer in a layout is the
\* leading part of the buffer, of the layout's local shape and dtype.
ViewData(layout, buffer) == SubSeq(buffer, 1, ViewWords(layout))

\* np.copyto(field.data, data) and field.data.fill(v): a write through the
\* view changes the leading part of the buffer and nothing behind it.
WriteView(layout, buffer, data) ==
    [w \in 1 .. Len(buffer) |-> IF w <= ViewWords(layout) THEN data[w] ELSE buffer[w]]

\* Field.data, as set by the layout setter: the view of the buffer in the
\* field's current layout.
FieldData(f) == ViewData(f.layout, f.buffer)

\* Field.layout setter: the layout is replaced and the view recomputed; the
\* buffer is not touched.
SetLayout(f, layout) == [f EXCEPT !.layout = layout]

\* Field._towards_grid_space: the body is 'pass'.
TowardsGridSpace(f) == f

\* Field._towards_coeff_space: the body is 'pass'.
TowardsCoeffSpace(f) == f

\* self.layout.index
FieldIndex(f) == LayoutAt(f.layout).index

\* The layout references a caller can hold: the objects in Distributor.layouts.
LayoutRefs == 0 .. (Len(layouts) - 1)

\* A Field call can start: the distributor is built, the field exists and no
\* call is running.
CanCall == pc = "ready" /\ field.exists /\ op.state # "running"

\* Domain.new_field: the field collected last if there is one, a new Field
\* otherwise (Field.__init__: a zeroed buffer, viewed in the grid layout).
NewField ==
    /\ pc = "ready"
    /\ ~field.exists
    /\ IF field_cache # << >>
       THEN /\ field' = [field EXCEPT !.exists = TRUE]
            /\ field_cache' = SubSeq(field_cache, 1, Len(field_cache) - 1)
       ELSE /\ field' = [exists |-> TRUE, layout |-> grid_layout, buffer |-> Zeros]
            /\ field_cache' = field_cache
    /\ UNCHANGED <<fields, call, distVars, query, op, caller>>

\* FieldCopyArray.operate: the field is put in the grid layout and the array
\* copied into its view.
CopyArray ==
    /\ CanCall
    /\ \E data \in Arrays(grid_layout) :
          /\ field' = [SetLayout(field, grid_layout) EXCEPT
                          !.buffer = WriteView(grid_layout, field.buffer, data)]
          /\ caller' = [passed |-> data, data |-> data]
    /\ op' = [name |-> "copy", state |-> "returned", target |-> grid_layout, axis |-> 0,
              calls |-> 0, error |-> "none"]
    /\ UNCHANGED <<field_cache, fields, call, distVars, query>>

\* Field.__del__ and Domain._collect_field: the field the caller drops is put
\* in the coefficient layout, its view filled with zeros, and the field
\* appended to the cache.
CollectField ==
    /\ CanCall
    /\ field' = [exists |-> FALSE, layout |-> coeff_layout,
                 buffer |-> WriteView(coeff_layout, field.buffer,
                                      [w \in 1 .. ViewWords(coeff_layout) |-> 0])]
    /\ field_cache' = Append(field_cache, "F")
    /\ op' = NoCall
    /\ caller' = NoArray
    /\ UNCHANGED <<fields, call, distVars, query>>

\* Field.__getitem__, entry.  A layout given by name is looked up through
\* 'self.domain.distributor', but self.domain is a weakref.ref object (line 24),
\* which has no attribute 'distributor': the lookup raises AttributeError.
GetItemCall ==
    /\ CanCall
    /\ \/ \E layout \in LayoutNames :
             op' = [name |-> "getitem", state |-> "raised", target |-> 0, axis |-> 0,
                    calls |-> 0, error |-> "AttributeError"]
       \/ \E layout \in LayoutRefs :
             op' = [name |-> "getitem", state |-> "running", target |-> layout,
                    axis |-> 0, calls |-> 0, error |-> "none"]
    /\ caller' = NoArray
    /\ UNCHANGED <<field_cache, fields, call, distVars, query, field>>

\* Field.__getitem__, one pass of its loops: a step towards grid space while
\* the index is below the target's, a step towards coefficient space while it
\* is above, 'return self.data' otherwise.
GetItemStep ==
    /\ op.name = "getitem" /\ op.state = "running"
    /\ LET target == LayoutAt(op.target).index
       IN IF FieldIndex(field) < target
          THEN /\ op.calls < MaxCalls
               /\ field' = TowardsGridSpace(field)
               /\ op' = [op EXCEPT !.calls = @ + 1]
          ELSE IF FieldIndex(field) > target
          THEN /\ op.calls < MaxCalls
               /\ field' = TowardsCoeffSpace(field)
               /\ op' = [op EXCEPT !.calls = @ + 1]
          ELSE /\ field' = field
               /\ op' = [op EXCEPT !.state = "returned"]
    /\ UNCHANGED <<field_cache, fields, call, distVars, query, caller>>

\* Field.__setitem__: the layout is set and 'np.copyto(data, self.data)' copies
\* the field's view into the caller's array (np.copyto(dst, src)).  A layout
\* given by name raises as in __getitem__.
SetItem ==
    /\ CanCall
    /\ \/ \E layout \in LayoutNames :
          \E data \in Arrays(layout_references[layout]) :
             /\ op' = [name |-> "setitem", state |-> "raised", target |-> 0, axis |-> 0,
                       calls |-> 0, error |-> "AttributeError"]
             /\ field' = field
             /\ caller' = [passed |-> data, data |-> data]
       \/ \E layout \in LayoutRefs :
          \E data \in Arrays(layout) :
             /\ op' = [name |-> "setitem", state |-> "returned", target |-> layout,
                       axis |-> 0, calls |-> 0, error |-> "none"]
             /\ field' = SetLayout(field, layout)
             /\ caller' = [passed |-> data, data |-> FieldData(SetLayout(field, layout))]
    /\ UNCHANGED <<field_cache, fields, call, distVars, query>>

\* Field.require_local, entry: a negative axis is counted from the end with
\* 'self.domain.dim', an attribute the weakref.ref object does not have.
RequireLocalCall ==
    /\ CanCall
    /\ \E axis \in (-dim) .. (dim - 1) :
          op' = IF axis < 0
                THEN [name |-> "require_local", state |-> "raised", target |-> 0,
                      axis |-> axis, calls |-> 0, error |-> "AttributeError"]
                ELSE [name |-> "require_local", state |-> "running", target |-> 0,
                      axis |-> axis, calls |-> 0, error |-> "none"]
    /\ caller' = NoArray
    /\ UNCHANGED <<field_cache, fields, call, distVars, query, field>>

\* Field.require_local, one pass of 'while not self.layout.local[axis]'.
RequireLocalStep ==
    /\ op.name = "require_local" /\ op.state = "running"
    /\ IF LayoutAt(field.layout).local[op.axis]
       THEN /\ field' = field
            /\ op' = [op EXCEPT !.state = "returned"]
       ELSE IF op.axis = 0
       THEN /\ op.calls < MaxCalls
            /\ field' = TowardsGridSpace(field)
            /\ op' = [op EXCEPT !.calls = @ + 1]
       ELSE IF op.axis = 1
       THEN /\ op.calls < MaxCalls
            /\ field' = TowardsCoeffSpace(field)
            /\ op' = [op EXCEPT !.calls = @ + 1]
       ELSE /\ field' = field
            /\ op' = [op EXCEPT !.state = "raised", !.error = "ValueError"]
    /\ UNCHANGED <<field_cache, fields, call, distVars, query, caller>>

\* The axis argument of require_grid_space left at its default, None.
NoAxis == 0 - 1

\* The loop condition of require_grid_space is over: the axis (every axis when
\* none is given) of the layout is in grid space.
InGridSpace(l, axis) ==
    IF axis = NoAxis THEN \A d \in DOMAIN l.grid_space : l.grid_space[d]
    ELSE l.grid_space[axis]

\* Field.require_grid_space, entry.
RequireGridSpaceCall ==
    /\ CanCall
    /\ \E axis \in {NoAxis} \cup Axes :
          op' = [name |-> "require_grid_space", state |-> "running", target |-> 0,
                 axis |-> axis, calls |-> 0, error |-> "none"]
    /\ caller' = NoArray
    /\ UNCHANGED <<field_cache, fields, call, distVars, query, field>>

\* Field.require_grid_space, one pass of its 'while not ...' loop.
RequireGridSpaceStep ==
    /\ op.name = "require_grid_space" /\ op.state = "running"
    /\ IF InGridSpace(LayoutAt(field.layout), op.axis)
       THEN /\ field' = field
            /\ op' = [op EXCEPT !.state = "returned"]
       ELSE /\ op.calls < MaxCalls
            /\ field' = TowardsGridSpace(field)
            /\ op' = [op EXCEPT !.calls = @ + 1]
    /\ UNCHANGED <<field_cache, fields, call, distVars, query, caller>>

\* The loop condition of require_coeff_space is over: the axis (every axis
\* when none is given) of the layout is in coefficient space.
InCoeffSpace(l, axis) ==
    IF axis = NoAxis THEN \A d \in DOMAIN l.grid_space : ~l.grid_space[d]
    ELSE ~l.grid_space[axis]

\* Field.require_coeff_space, entry.
RequireCoeffSpaceCall ==
    /\ CanCall
    /\ \E axis \in {NoAxis} \cup Axes :
          op' = [name |-> "require_coeff_space", state |-> "running", target |-> 0,
                 axis |-> axis, calls |-> 0, error |-> "none"]
    /\ caller' = NoArray
    /\ UNCHANGED <<field_cache, fields, call, distVars, query, field>>

\* Field.require_coeff_space, one pass of its 'while ...' loop.
RequireCoeffSpaceStep ==
    /\ op.name = "require_coeff_space" /\ op.state = "running"
    /\ IF InCoeffSpace(LayoutAt(field.layout), op.axis)
       THEN /\ field' = field
            /\ op' = [op EXCEPT !.state = "returned"]
       ELSE /\ op.calls < MaxCalls
            /\ field' = TowardsCoeffSpace(field)
            /\ op' = [op EXCEPT !.calls = @ + 1]
    /\ UNCHANGED <<field_cache, fields, call, distVars, query, caller>>

\* One pass of the loop of require_local(axis) or require_coeff_space(axis) on
\* a field: the loop is over, the pass raises, or it makes a navigation step.
RequestPass(request, f, axis) ==
    IF request = "require_local"
    THEN IF LayoutAt(f.layout).local[axis]
         THEN [over |-> TRUE, error |-> "none", field |-> f]
         ELSE IF axis = 0
         THEN [over |-> FALSE, error |-> "none", field |-> TowardsGridSpace(f)]
         ELSE IF axis = 1
         THEN [over |-> FALSE, error |-> "none", field |-> TowardsCoeffSpace(f)]
         ELSE [over |-> FALSE, error |-> "ValueError", field |-> f]
    ELSE IF InCoeffSpace(LayoutAt(f.layout), axis)
         THEN [over |-> TRUE, error |-> "none", field |-> f]
         ELSE [over |-> FALSE, error |-> "none", field |-> TowardsCoeffSpace(f)]

\* Field.differentiate(axis, out), entry: require_local(axis) comes first,
\* require_coeff_space(axis) second.
DifferentiateCall ==
    /\ CanCall
    /\ \E axis \in Axes :
          op' = [name |-> "differentiate", state |-> "running", target |-> 0,
                 axis |-> axis, calls |-> 0, error |-> "none",
                 requests |-> <<"require_local", "require_coeff_space">>]
    /\ caller' = NoArray
    /\ UNCHANGED <<field_cache, fields, call, distVars, query, field>>

\* Coupled.operate(out), entry: arg0.require_coeff_space(axis) comes first,
\* arg0.require_local(axis) second.
CoupledOperateCall ==
    /\ CanCall
    /\ \E axis \in Axes :
          op' = [name |-> "coupled", state |-> "running", target |-> 0,
                 axis |-> axis, calls |-> 0, error |-> "none",
                 requests |-> <<"require_coeff_space", "require_local">>]
    /\ caller' = NoArray
    /\ UNCHANGED <<field_cache, fields, call, distVars, query, field>>

\* One pass of the request that Field.differentiate or Coupled.operate is in:
\* when its loop is over the next request starts, and after the last request
\* the navigation is over.
CoupledRequestStep ==
    /\ op.name \in {"differentiate", "coupled"} /\ op.state = "running"
    /\ LET pass == RequestPass(Head(op.requests), field, op.axis)
       IN IF pass.over
          THEN /\ field' = field
               /\ op' = IF Len(op.requests) = 1
                        THEN [op EXCEPT !.state = "returned", !.requests = << >>]
                        ELSE [op EXCEPT !.requests = Tail(@)]
          ELSE IF pass.error # "none"
          THEN /\ field' = field
               /\ op' = [op EXCEPT !.state = "raised", !.error = pass.error]
          ELSE /\ op.calls < MaxCalls
               /\ field' = pass.field
               /\ op' = [op EXCEPT !.calls = @ + 1]
    /\ UNCHANGED <<field_cache, fields, call, distVars, query, caller>>

\* ------------------------------------------------------------------ paths

\* The lists of fields a path can be handed: one field or more, each in one of
\* the two layouts of the path.
FieldLists(p) ==
    UNION {[1 .. k -> {[layout |-> p.layout0], [layout |-> p.layout1]}] :
             k \in 1 .. MaxFields}

\* The scales the fields of a call share: one scale on every axis, with an
\* integer grid size.
PathScales ==
    {sc \in {[d \in Axes |-> s] : s \in ScaleSet} :
        \A d \in Axes : ~GridSizeRaises(bases[d].base_grid_size, sc[d])}

\* The dispatch of increment and decrement: one field, the grouped call, or
\* the loop over the fields.
Dispatch(fs, group) ==
    IF Len(fs) = 1 THEN "single" ELSE IF group THEN "group" ELSE "loop"

\* np.prod(field.data.shape): the number of local elements of the field's view.
LocalElems(f, scales, coords) == Prod(LocalShape(LayoutAt(f.layout), scales, coords))

\* Transform.increment_single / decrement_single: 'field.layout = ...'.
MoveSingle(f, layout) == [f EXCEPT !.layout = layout]

\* The loop of the ungrouped dispatch, ended after its first field.
MoveFields_FirstOnly(fs, mode, layout) ==
    [k \in 1 .. Len(fs) |->
        IF mode = "loop" /\ k > 1 THEN fs[k] ELSE MoveSingle(fs[k], layout)]

\* The fields after Transform.increment (layout = layout1) or decrement
\* (layout = layout0): the single call on the one field of the list, the second
\* loop of increment_group / decrement_group over every field, or the loop of
\* single calls.
MoveFields(fs, mode, layout) ==
    IF mode = "single" THEN <<MoveSingle(fs[1], layout)>>
    ELSE IF mode = "group" THEN [k \in 1 .. Len(fs) |-> [fs[k] EXCEPT !.layout = layout]]
    ELSE [k \in 1 .. Len(fs) |-> MoveSingle(fs[k], layout)]

\* The number of calls of basis.backward / basis.forward made by a Transform:
\* one for the group, and in the other modes one for each field that has
\* local data.
TransformKernels(fs, mode, scales, coords) ==
    IF mode = "group" THEN 1
    ELSE Cardinality({k \in 1 .. Len(fs) : LocalElems(fs[k], scales, coords) # 0})

\* A call of path k can be made.  Its inputs are the fields, the GROUP_*
\* setting, the scales the fields share and the mesh coordinates of the
\* process; one call is followed in a behaviour.
CanCallPath(k, kind) ==
    /\ pc = "ready"
    /\ call.name = "none"
    /\ paths[k].kind = kind

\* Transform.increment: basis.backward, the fields left in layout1.
TransformIncrement ==
    \E k \in 1 .. Len(paths) :
       /\ CanCallPath(k, "Transform")
       /\ \E fs \in FieldLists(paths[k]), group \in BOOLEAN,
             scales \in PathScales, coords \in Ranks :
             LET mode == Dispatch(fs, group)
             IN /\ fields' = MoveFields(fs, mode, paths[k].layout1)
                /\ call' = [name |-> "Transform", path |-> k, dir |-> "increment",
                            mode |-> mode, before |-> fs, scales |-> scales,
                            coords |-> coords, plan |-> FALSE,
                            kernels |-> TransformKernels(fs, mode, scales, coords)]
       /\ UNCHANGED <<distVars, query, field, op, caller, field_cache>>

\* Transform.decrement: basis.forward, the fields left in layout0.
TransformDecrement ==
    \E k \in 1 .. Len(paths) :
       /\ CanCallPath(k, "Transform")
       /\ \E fs \in FieldLists(paths[k]), group \in BOOLEAN,
             scales \in PathScales, coords \in Ranks :
             LET mode == Dispatch(fs, group)
             IN /\ fields' = MoveFields(fs, mode, paths[k].layout0)
                /\ call' = [name |-> "Transform", path |-> k, dir |-> "decrement",
                            mode |-> mode, before |-> fs, scales |-> scales,
                            coords |-> coords, plan |-> FALSE,
                            kernels |-> TransformKernels(fs, mode, scales, coords)]
       /\ UNCHANGED <<distVars, query, field, op, caller, field_cache>>

\* 'howmany' with the two transposed axes counted as well.
HowMany_WholeShape(shape0, axis, nfields) == nfields * Prod(shape0)

\* 'howmany' of Transpose._fftw_setup and _group_fftw_setup:
\* nfields * np.prod(shape0[:axis]) * np.prod(shape0[axis+2:]).
HowMany(shape0, axis, nfields) ==
    LET P[d \in 0 .. dim] ==
            IF d = 0 THEN 1
            ELSE IF d - 1 \in {axis, axis + 1} THEN P[d - 1]
            ELSE shape0[d - 1] * P[d - 1]
    IN nfields * P[dim]

\* A plan is returned by the setup: 'if howmany == 0: return None, None, None'.
\* The single-field setup serves the single call and every pass of the loop.
PlanBuilt(p, fs, mode, scales, coords) ==
    HowMany(LocalShape(LayoutAt(p.layout0), scales, coords), p.axis,
            IF mode = "group" THEN Len(fs) ELSE 1) # 0

\* The number of calls of plan.gather / plan.scatter made by a Transpose: none
\* without a plan, one for the group, one for each field otherwise.
TransposeKernels(p, fs, mode, scales, coords) ==
    IF ~PlanBuilt(p, fs, mode, scales, coords) THEN 0
    ELSE IF mode = "group" THEN 1 ELSE Len(fs)

\* The fields after Transpose.increment (layout = layout1) or decrement
\* (layout = layout0): with a plan or without, the branch taken sets the layout
\* of the one field, of every field of the group, or of each field in turn.
TransposeFields(fs, mode, layout) ==
    IF mode = "single" THEN <<MoveSingle(fs[1], layout)>>
    ELSE [k \in 1 .. Len(fs) |-> MoveSingle(fs[k], layout)]

\* Transpose.increment: plan.gather, the fields left in layout1.
TransposeIncrement ==
    \E k \in 1 .. Len(paths) :
       /\ CanCallPath(k, "Transpose")
       /\ \E fs \in FieldLists(paths[k]), group \in BOOLEAN,
             scales \in PathScales, coords \in Ranks :
             LET mode == Dispatch(fs, group)
             IN /\ fields' = TransposeFields(fs, mode, paths[k].layout1)
                /\ call' = [name |-> "Transpose", path |-> k, dir |-> "increment",
                            mode |-> mode, before |-> fs, scales |-> scales,
                            coords |-> coords,
                            plan |-> PlanBuilt(paths[k], fs, mode, scales, coords),
                            kernels |-> TransposeKernels(paths[k], fs, mode, scales,
                                                         coords)]
       /\ UNCHANGED <<distVars, query, field, op, caller, field_cache>>

\* Transpose.decrement: plan.scatter, the fields left in layout0.
TransposeDecrement ==
    \E k \in 1 .. Len(paths) :
       /\ CanCallPath(k, "Transpose")
       /\ \E fs \in FieldLists(paths[k]), group \in BOOLEAN,
             scales \in PathScales, coords \in Ranks :
             LET mode == Dispatch(fs, group)
             IN /\ fields' = TransposeFields(fs, mode, paths[k].layout0)
                /\ call' = [name |-> "Transpose", path |-> k, dir |-> "decrement",
                            mode |-> mode, before |-> fs, scales |-> scales,
                            coords |-> coords,
                            plan |-> PlanBuilt(paths[k], fs, mode, scales, coords),
                            kernels |-> TransposeKernels(paths[k], fs, mode, scales,
                                                         coords)]
       /\ UNCHANGED <<distVars, query, field, op, caller, field_cache>>

\* ------------------------------------------------------------------ transpose steps

\* No layout: the layout entry of a step that touches no field.
NoLayout == 0 - 1

\* One statement of a Transpose call, on the field at a position of the list
\* (0 for the collective, which touches no field).
Statement(step, f) == [step |-> step, field |-> f]

\* The statements of increment_single / decrement_single on field f: with a
\* plan the copy into the plan buffer, the collective, the layout update and
\* the copy out of the plan buffer; without one the layout update alone.
SingleStatements(f, plan) ==
    IF plan
    THEN <<Statement("copy_in", f), Statement("collective", 0),
           Statement("set_layout", f), Statement("copy_out", f)>>
    ELSE <<Statement("set_layout", f)>>

\* The statements of increment_group / decrement_group on n fields: the loop
\* of copies in, the collective, and the loop of layout update and copy out;
\* without a plan the loop of layout updates.
GroupStatements(n, plan) ==
    IF plan
    THEN [j \in 1 .. n |-> Statement("copy_in", j)]
         \o <<Statement("collective", 0)>>
         \o [j \in 1 .. 2 * n |->
                IF j % 2 = 1 THEN Statement("set_layout", (j + 1) \div 2)
                ELSE Statement("copy_out", j \div 2)]
    ELSE [j \in 1 .. n |-> Statement("set_layout", j)]

\* 'for field in fields: self.increment_single(field)' over the first n fields.
RECURSIVE LoopStatements(_, _)
LoopStatements(n, plan) ==
    IF n = 0 THEN << >>
    ELSE LoopStatements(n - 1, plan) \o SingleStatements(n, plan)

\* Mutant: the layout of the field is updated before its data is copied into
\* the plan buffer.
TransposeStatements_LayoutFirst(n, mode, plan) ==
    IF plan /\ mode = "single"
    THEN <<Statement("set_layout", 1), Statement("copy_in", 1),
           Statement("collective", 0), Statement("copy_out", 1)>>
    ELSE IF mode = "group" THEN GroupStatements(n, plan)
    ELSE LoopStatements(n, plan)

\* The statements run by Transpose.increment / decrement on n fields, by the
\* dispatch of the call.
TransposeStatements(n, mode, plan) ==
    IF mode = "single" THEN SingleStatements(1, plan)
    ELSE IF mode = "group" THEN GroupStatements(n, plan)
    ELSE LoopStatements(n, plan)

\* The fields handed to a Transpose: one or more, each with the content of its
\* view, all in the layout the call starts from.
TransposeInputs(l) ==
    UNION {[1 .. k -> {[layout |-> l, data |-> v] : v \in Values}] : k \in 1 .. MaxFields}

\* The slot of the plan buffers used for a field: temp0[i] and temp1[i] in the
\* grouped call, the whole of temp0 and temp1 otherwise.
TempSlot(mode, f) == IF mode = "group" THEN f ELSE 1

\* The plan buffer read by the collective (temp0 for gather, temp1 for
\* scatter) and the one it fills.
TempIn(dir) == IF dir = "increment" THEN "temp0" ELSE "temp1"

TempOut(dir) == IF dir = "increment" THEN "temp1" ELSE "temp0"

\* The layout a call leaves its fields in.
TargetLayout(p, dir) == IF dir = "increment" THEN p.layout1 ELSE p.layout0

\* The layout a call takes its fields from.
SourceOf(p, dir) == IF dir = "increment" THEN p.layout0 ELSE p.layout1

\* Transpose.increment / decrement, entry: the dispatch, and the setup that
\* returns the plan and its two buffers, or None for each.
TransposeBegin ==
    \E k \in 1 .. Len(paths), dir \in {"increment", "decrement"} :
       /\ CanCallPath(k, "Transpose")
       /\ \E fs \in TransposeInputs(SourceOf(paths[k], dir)), group \in BOOLEAN,
             scales \in PathScales, coords \in Ranks :
             LET mode == Dispatch(fs, group)
                 plan == PlanBuilt(paths[k], fs, mode, scales, coords)
                 slots == IF mode = "group" THEN Len(fs) ELSE 1
             IN /\ fields' = fs
                /\ call' = [name |-> "transpose", path |-> k, dir |-> dir,
                            mode |-> mode, plan |-> plan,
                            statements |-> TransposeStatements(Len(fs), mode, plan),
                            pos |-> 1,
                            temp0 |-> [j \in 1 .. slots |-> 0],
                            temp1 |-> [j \in 1 .. slots |-> 0],
                            log |-> << >>]
       /\ UNCHANGED <<distVars, query, field, op, caller, field_cache>>

\* The statement a running Transpose call is at.
AtStatement(step) ==
    /\ call.name = "transpose"
    /\ call.pos <= Len(call.statements)
    /\ call.statements[call.pos].step = step

\* The record of a statement: the field it touched, the layout of that field
\* when it ran and the plan buffer it used.
Logged(step, f, layout, temp) ==
    [step |-> step, field |-> f, layout |-> layout, temp |-> temp]

\* np.copyto(temp0, field.data) of increment, np.copyto(temp1, field.data) of
\* decrement.
TransposeCopyIn ==
    /\ AtStatement("copy_in")
    /\ LET f == call.statements[call.pos].field
           slot == TempSlot(call.mode, f)
           entry == Logged("copy_in", f, fields[f].layout, TempIn(call.dir))
       IN call' = IF call.dir = "increment"
                  THEN [call EXCEPT !.temp0[slot] = fields[f].data, !.pos = @ + 1,
                                    !.log = Append(@, entry)]
                  ELSE [call EXCEPT !.temp1[slot] = fields[f].data, !.pos = @ + 1,
                                    !.log = Append(@, entry)]
    /\ UNCHANGED <<distVars, query, field, op, caller, field_cache, fields>>

\* plan.gather() / plan.scatter(): the other plan buffer is filled with what
\* the ranks of the sub-communicator exchange.
TransposeCollective ==
    /\ AtStatement("collective")
    /\ \E received \in [1 .. Len(call.temp0) -> Values] :
          LET entry == Logged(IF call.dir = "increment" THEN "gather" ELSE "scatter",
                              0, NoLayout, "none")
          IN call' = IF call.dir = "increment"
                     THEN [call EXCEPT !.temp1 = received, !.pos = @ + 1,
                                       !.log = Append(@, entry)]
                     ELSE [call EXCEPT !.temp0 = received, !.pos = @ + 1,
                                       !.log = Append(@, entry)]
    /\ UNCHANGED <<distVars, query, field, op, caller, field_cache, fields>>

\* 'field.layout = self.layout1' of increment, 'field.layout = self.layout0'
\* of decrement.
TransposeSetLayout ==
    /\ AtStatement("set_layout")
    /\ LET f == call.statements[call.pos].field
           target == TargetLayout(paths[call.path], call.dir)
       IN /\ fields' = [fields EXCEPT ![f].layout = target]
          /\ call' = [call EXCEPT !.pos = @ + 1,
                                  !.log = Append(@, Logged("set_layout", f, target, "none"))]
    /\ UNCHANGED <<distVars, query, field, op, caller, field_cache>>

\* np.copyto(field.data, temp1) of increment, np.copyto(field.data, temp0) of
\* decrement.
TransposeCopyOut ==
    /\ AtStatement("copy_out")
    /\ LET f == call.statements[call.pos].field
           slot == TempSlot(call.mode, f)
           temp == IF call.dir = "increment" THEN call.temp1 ELSE call.temp0
       IN /\ fields' = [fields EXCEPT ![f].data = temp[slot]]
          /\ call' = [call EXCEPT !.pos = @ + 1,
                                  !.log = Append(@, Logged("copy_out", f, fields[f].layout,
                                                           TempOut(call.dir)))]
    /\ UNCHANGED <<distVars, query, field, op, caller, field_cache>>

\* ------------------------------------------------------------------ transform data

\* The content of a view of n elements that holds the value v throughout.
DataOf(v, n) == [j \in 1 .. n |-> v]

\* basis.backward / basis.forward as the Transform calls them: the output
\* array of n elements computed from the input array.  The transform of the
\* value v is written v + 2 (backward) and v + 4 (forward).
Kernel(dir, data, n) ==
    IF data = << >> THEN DataOf(0, n)
    ELSE DataOf(data[1] + (IF dir = "increment" THEN 2 ELSE 4), n)

\* The fields handed to a Transform: one or more, all in the layout the call
\* starts from, each with the content of its view on this rank.
TransformInputs(l, scales, coords) ==
    UNION {[1 .. k -> {[layout |-> l,
                        data |-> DataOf(v, Prod(LocalShape(LayoutAt(l), scales, coords)))] :
                          v \in Values}] : k \in 1 .. MaxFields}

\* increment_single / decrement_single with the data: the two views are
\* taken, the layout is set, and the kernel runs from one view to the other
\* 'if np.prod(cdata.shape)'; a view without elements stays without.
TransformSingle(f, p, dir, scales, coords) ==
    LET target == IF dir = "increment" THEN p.layout1 ELSE p.layout0
        n == Prod(LocalShape(LayoutAt(target), scales, coords))
    IN [layout |-> MoveSingle(f, target).layout,
        data |-> IF Len(f.data) # 0 THEN Kernel(dir, f.data, n) ELSE DataOf(0, n)]

\* Mutant: every field of the group is given the first slot of the group
\* output.
TransformGroup_FirstSlot(fs, p, dir, scales, coords) ==
    LET target == IF dir = "increment" THEN p.layout1 ELSE p.layout0
        n == Prod(LocalShape(LayoutAt(target), scales, coords))
        group_in == [k \in 1 .. Len(fs) |-> fs[k].data]
        group_out == [k \in 1 .. Len(fs) |-> Kernel(dir, group_in[k], n)]
    IN [k \in 1 .. Len(fs) |-> [layout |-> target, data |-> group_out[1]]]

\* increment_group / decrement_group with the data: each field's view is
\* copied into its slot of the group input, the kernel runs once on the group
\* along axis + 1, and each field is given its layout and its slot of the
\* group output.
TransformGroup(fs, p, dir, scales, coords) ==
    LET target == IF dir = "increment" THEN p.layout1 ELSE p.layout0
        n == Prod(LocalShape(LayoutAt(target), scales, coords))
        group_in == [k \in 1 .. Len(fs) |-> fs[k].data]
        group_out == [k \in 1 .. Len(fs) |-> Kernel(dir, group_in[k], n)]
    IN [k \in 1 .. Len(fs) |-> [layout |-> target, data |-> group_out[k]]]

\* Transform.increment / decrement with the data, under a GROUP_TRANSFORMS
\* setting.
TransformData(fs, group, p, dir, scales, coords) ==
    IF Dispatch(fs, group) = "group" THEN TransformGroup(fs, p, dir, scales, coords)
    ELSE [k \in 1 .. Len(fs) |-> TransformSingle(fs[k], p, dir, scales, coords)]

\* The fields, scales and rank of a Transform call that is made under both
\* GROUP_TRANSFORMS settings.
TransformArgs ==
    \E k \in 1 .. Len(paths), dir \in {"increment", "decrement"} :
       /\ CanCallPath(k, "Transform")
       /\ \E scales \in PathScales, coords \in Ranks :
          \E fs \in TransformInputs(SourceOf(paths[k], dir), scales, coords) :
             /\ fields' = fs
             /\ call' = [name |-> "transform", path |-> k, dir |-> dir,
                         scales |-> scales, coords |-> coords,
                         done |-> {}, grouped |-> << >>, ungrouped |-> << >>,
                         modes |-> {}]
       /\ UNCHANGED <<distVars, query, field, op, caller, field_cache>>

\* The call with GROUP_TRANSFORMS on.
TransformGrouped ==
    /\ call.name = "transform"
    /\ "grouped" \notin call.done
    /\ call' = [call EXCEPT
                  !.done = @ \cup {"grouped"},
                  !.modes = @ \cup {Dispatch(fields, TRUE)},
                  !.grouped = TransformData(fields, TRUE, paths[call.path], call.dir,
                                            call.scales, call.coords)]
    /\ UNCHANGED <<distVars, query, field, op, caller, field_cache, fields>>

\* The call with GROUP_TRANSFORMS off.
TransformUngrouped ==
    /\ call.name = "transform"
    /\ "ungrouped" \notin call.done
    /\ call' = [call EXCEPT
                  !.done = @ \cup {"ungrouped"},
                  !.modes = @ \cup {Dispatch(fields, FALSE)},
                  !.ungrouped = TransformData(fields, FALSE, paths[call.path], call.dir,
                                              call.scales, call.coords)]
    /\ UNCHANGED <<distVars, query, field, op, caller, field_cache, fields>>

\* ------------------------------------------------------------------ collectives

\* Mutant: the Transpose talks to the whole mesh communicator.
CommSub_WholeMesh(axis, coords) == Ranks

\* comm_cart.Sub(remain_dims) with remain_dims[axis] = 1: the ranks of the
\* mesh that differ from this one along mesh axis 'axis' only.
CommSub(axis, coords) ==
    {c \in Ranks : \A r \in 1 .. R : r # axis + 1 => c[r] = coords[r]}

\* Every rank of a sub-communicator makes the same Transpose call on one
\* field, with the same scales and the same SYNC_TRANSPOSES setting.
CollectiveBegin ==
    \E k \in 1 .. Len(paths) :
       /\ CanCallPath(k, "Transpose")
       /\ \E scales \in PathScales, coords \in Ranks, sync \in BOOLEAN :
             LET comm == CommSub(paths[k].axis, coords)
             IN call' = [name |-> "collective", path |-> k, scales |-> scales,
                         sync |-> sync, comm |-> comm,
                         at |-> [c \in comm |-> "called"],
                         plan |-> [c \in comm |-> FALSE]]
       /\ UNCHANGED <<distVars, query, field, op, caller, field_cache, fields>>

\* 'if SYNC_TRANSPOSES: self.comm_sub.Barrier()': a rank enters the barrier,
\* or goes on to the dispatch when the setting is off.
RankBarrier ==
    /\ call.name = "collective"
    /\ \E c \in call.comm :
          /\ call.at[c] = "called"
          /\ call' = [call EXCEPT !.at[c] = IF call.sync THEN "barrier" ELSE "dispatch"]
    /\ UNCHANGED <<distVars, query, field, op, caller, field_cache, fields>>

\* The barrier returns on every rank once every rank of the sub-communicator
\* has entered it.
BarrierReturn ==
    /\ call.name = "collective"
    /\ \A c \in call.comm : call.at[c] = "barrier"
    /\ call' = [call EXCEPT !.at = [c \in call.comm |-> "dispatch"]]
    /\ UNCHANGED <<distVars, query, field, op, caller, field_cache, fields>>

\* increment_single / decrement_single on a rank: the setup with the rank's
\* own local shape, then 'if plan:' the collective, which the rank enters and
\* waits in, 'else:' the layout update alone.
RankSetup ==
    /\ call.name = "collective"
    /\ \E c \in call.comm :
          /\ call.at[c] = "dispatch"
          /\ LET p == paths[call.path]
                 plan == PlanBuilt(p, <<[layout |-> p.layout0]>>, "single", call.scales, c)
             IN call' = [call EXCEPT !.plan[c] = plan,
                                     !.at[c] = IF plan THEN "collective" ELSE "returned"]
    /\ UNCHANGED <<distVars, query, field, op, caller, field_cache, fields>>

\* plan.gather() / plan.scatter() returns on every rank once every rank of
\* the sub-communicator has entered it.
CollectiveReturn ==
    /\ call.name = "collective"
    /\ \A c \in call.comm : call.at[c] = "collective"
    /\ call' = [call EXCEPT !.at = [c \in call.comm |-> "returned"]]
    /\ UNCHANGED <<distVars, query, field, op, caller, field_cache, fields>>

\* ------------------------------------------------------------------ actions

Next == BuildLayoutsStep

Spec == Init /\ [][Next]_vars

\* The layout queries: domains whose bases share one kind, every base grid size
\* 1..MaxN, and the scales of each query drawn per axis.
InitShape == InitWith(1 .. MaxShapeDim, 2 .. MaxMesh, TRUE, 1 .. MaxN)

NextShape == BuildLayoutsStep \/ Query

SpecShape == InitShape /\ [][NextShape]_vars

\* The construction of the distributor from the mesh argument.
NextMesh == DistributorInit \/ BuildLayoutsStep

SpecMesh == InitMesh /\ [][NextMesh]_vars

\* The path calls: domains of every dimension with a mesh of entries 2, the
\* bases of base grid size 1 .. FieldN, so that an axis of size 1 leaves the
\* second rank of its mesh axis without elements.
InitPath == InitWith(1 .. MaxDim, {2}, TRUE, 1 .. FieldN)

NextPath ==
    \/ BuildLayoutsStep
    \/ TransformIncrement
    \/ TransformDecrement
    \/ TransposeIncrement
    \/ TransposeDecrement

SpecPath == InitPath /\ [][NextPath]_vars

\* The statements of a Transpose call, one at a time: domains of two
\* dimensions or more, on which a mesh can have a Transpose.
InitTranspose == InitWith(2 .. MaxDim, {2}, TRUE, 1 .. FieldN)

NextTranspose ==
    \/ BuildLayoutsStep
    \/ TransposeBegin
    \/ TransposeCopyIn
    \/ TransposeCollective
    \/ TransposeSetLayout
    \/ TransposeCopyOut

SpecTranspose == InitTranspose /\ [][NextTranspose]_vars

\* The ranks of a sub-communicator in one Transpose call; each rank, the
\* barrier and the collective go on when they can.
NextCollective ==
    \/ BuildLayoutsStep
    \/ CollectiveBegin
    \/ RankBarrier
    \/ BarrierReturn
    \/ RankSetup
    \/ CollectiveReturn

SpecCollective == InitPath /\ [][NextCollective]_vars /\ WF_vars(NextCollective)

\* A Transform call made with and without grouping.
NextGroup ==
    \/ BuildLayoutsStep
    \/ TransformArgs
    \/ TransformGrouped
    \/ TransformUngrouped

SpecGroup == InitPath /\ [][NextGroup]_vars

\* The Field calls: every mesh entry is 2 and the bases share one kind, since
\* the navigation reads the mesh only through R and never reads the bases.
InitField == InitWith(1 .. MaxDim, {2}, TRUE, {FieldN})

NextField ==
    \/ BuildLayoutsStep
    \/ NewField
    \/ CopyArray
    \/ CollectField
    \/ GetItemCall
    \/ GetItemStep
    \/ SetItem
    \/ RequireLocalCall
    \/ RequireLocalStep
    \/ RequireGridSpaceCall
    \/ RequireGridSpaceStep
    \/ RequireCoeffSpaceCall
    \/ RequireCoeffSpaceStep
    \/ DifferentiateCall
    \/ CoupledOperateCall
    \/ CoupledRequestStep

SpecField == InitField /\ [][NextField]_vars

\* ------------------------------------------------------------------ claims

\* A tuple of flags written as in the source, e.g. <<FALSE, TRUE, TRUE>>, as a
\* per-axis array.
Flags(s) == [d \in 0 .. (Len(s) - 1) |-> s[d + 1]]

\* C1: construction produces exactly R+D+1 layouts carrying the indices 0..R+D
\* in list order and exactly R+D paths, and paths[i] links layouts[i] (layout0)
\* to layouts[i+1] (layout1).
C1_LayoutAndPathCount ==
    /\ \A k \in 1 .. Len(layouts) : layouts[k].index = k - 1
    /\ Len(paths) = Len(layouts) - 1
    /\ \A k \in 1 .. Len(paths) : paths[k].layout0 = k - 1 /\ paths[k].layout1 = k
    /\ pc = "ready" => Len(layouts) = R + dim + 1 /\ Len(paths) = R + dim

C1_Witness == pc = "ready" /\ dim = 3 /\ R = 2 /\ Len(paths) = 5

\* C2: layout 0 has local = [False]*R + [True]*(D-R) and grid_space all False;
\* the last layout (index R+D) has grid_space all True and
\* local = [True] + [False]*R + [True]*(D-R-1); the names 'c'/'coeff' and
\* 'g'/'grid' refer to these two layouts.
C2_EndLayouts ==
    /\ layouts[1].local = [d \in Axes |-> ~(d < R)]
    /\ layouts[1].grid_space = [d \in Axes |-> FALSE]
    /\ pc = "ready" =>
          /\ layout_references["c"] = 0 /\ layout_references["coeff"] = 0
          /\ layout_references["g"] = R + dim /\ layout_references["grid"] = R + dim
          /\ LayoutAt(layout_references["g"]).index = R + dim
          /\ LayoutAt(layout_references["g"]).grid_space = [d \in Axes |-> TRUE]
          /\ LayoutAt(layout_references["g"]).local = [d \in Axes |-> d = 0 \/ d > R]
          /\ LayoutAt(layout_references["c"]).index = 0

C2_Witness == pc = "ready" /\ dim = 3 /\ R = 1 /\ LayoutAt(grid_layout).local = Flags(<<TRUE, FALSE, TRUE>>)

\* The pair (layouts[k], layouts[k+1]) differs by one Transform along d.
IsTransformPair(a, b, d) ==
    /\ ~a.grid_space[d] /\ b.grid_space[d]
    /\ \A e \in DOMAIN a.grid_space : e # d => a.grid_space[e] = b.grid_space[e]
    /\ a.local = b.local

\* The pair (layouts[k], layouts[k+1]) differs by one Transpose along d.
IsTransposePair(a, b, d) ==
    /\ d + 1 \in DOMAIN a.local
    /\ ~a.local[d] /\ b.local[d] /\ a.local[d + 1] /\ ~b.local[d + 1]
    /\ \A e \in DOMAIN a.local : e \notin {d, d + 1} => a.local[e] = b.local[e]
    /\ a.grid_space = b.grid_space
    /\ a.dtype = b.dtype

AdjacentByPath(k) ==
    LET a == layouts[k]
        b == layouts[k + 1]
        p == paths[k]
    IN \/ p.kind = "Transform" /\ IsTransformPair(a, b, p.axis)
       \/ p.kind = "Transpose" /\ IsTransposePair(a, b, p.axis)

LayoutsUnaltered ==
    \A k \in 1 .. Len(layouts) : k <= Len(layouts') /\ layouts'[k] = layouts[k]

\* C3: consecutive layouts differ by exactly one atomic change, a Transform
\* (one grid_space flag False->True, local flags identical) or a Transpose
\* (local[d] False->True, local[d+1] True->False, everything else identical);
\* the path recorded for the pair has that kind and axis; and a stored layout
\* is never altered by later construction steps.
C3_Adjacency ==
    /\ [](\A k \in 1 .. Len(paths) : k < Len(layouts) /\ AdjacentByPath(k))
    /\ [][LayoutsUnaltered]_vars

C3_Witness ==
    /\ pc = "ready" /\ dim = 3 /\ R = 2
    /\ \E k, l \in 1 .. Len(paths) : paths[k].kind = "Transform" /\ paths[l].kind = "Transpose"

\* C4 (as claimed): for D=3 and mesh=[4] the chain is (F,T,T)(F,F,F), (F,T,T)(F,F,T),
\* (T,F,T)(F,F,T), (T,F,T)(F,T,T), (T,F,T)(T,T,T) and the paths are
\* Transform(axis=2), Transpose(axis=0), Transform(axis=1), Transform(axis=0).
C4_ScenarioS4 ==
    (pc = "ready" /\ dim = 3 /\ mesh = <<4>>) =>
        /\ [k \in 1 .. Len(layouts) |-> layouts[k].local] =
              << Flags(<<FALSE, TRUE, TRUE>>), Flags(<<FALSE, TRUE, TRUE>>),
                 Flags(<<TRUE, FALSE, TRUE>>), Flags(<<TRUE, FALSE, TRUE>>),
                 Flags(<<TRUE, FALSE, TRUE>>) >>
        /\ [k \in 1 .. Len(layouts) |-> layouts[k].grid_space] =
              << Flags(<<FALSE, FALSE, FALSE>>), Flags(<<FALSE, FALSE, TRUE>>),
                 Flags(<<FALSE, FALSE, TRUE>>), Flags(<<FALSE, TRUE, TRUE>>),
                 Flags(<<TRUE, TRUE, TRUE>>) >>
        /\ [k \in 1 .. Len(paths) |-> <<paths[k].kind, paths[k].axis>>] =
              << <<"Transform", 2>>, <<"Transpose", 0>>, <<"Transform", 1>>,
                 <<"Transform", 0>> >>

\* C4 (amended): for D=3 and mesh=[4] the chain is (F,T,T)(F,F,F),
\* (F,T,T)(F,F,T), (F,T,T)(F,T,T), (T,F,T)(F,T,T), (T,F,T)(T,T,T) and the paths
\* are Transform(axis=2), Transform(axis=1), Transpose(axis=0),
\* Transform(axis=0): axis 1 is local in layout 1, so it is transformed before
\* axis 0 is transposed.
C4_ScenarioS4_Amended ==
    (pc = "ready" /\ dim = 3 /\ mesh = <<4>>) =>
        /\ [k \in 1 .. Len(layouts) |-> layouts[k].local] =
              << Flags(<<FALSE, TRUE, TRUE>>), Flags(<<FALSE, TRUE, TRUE>>),
                 Flags(<<FALSE, TRUE, TRUE>>), Flags(<<TRUE, FALSE, TRUE>>),
                 Flags(<<TRUE, FALSE, TRUE>>) >>
        /\ [k \in 1 .. Len(layouts) |-> layouts[k].grid_space] =
              << Flags(<<FALSE, FALSE, FALSE>>), Flags(<<FALSE, FALSE, TRUE>>),
                 Flags(<<FALSE, TRUE, TRUE>>), Flags(<<FALSE, TRUE, TRUE>>),
                 Flags(<<TRUE, TRUE, TRUE>>) >>
        /\ [k \in 1 .. Len(paths) |-> <<paths[k].kind, paths[k].axis>>] =
              << <<"Transform", 2>>, <<"Transform", 1>>, <<"Transpose", 0>>,
                 <<"Transform", 0>> >>

C4_Witness == pc = "ready" /\ dim = 3 /\ mesh = <<4>> /\ Len(layouts) = 5

\* Sum of the local element counts of layout l over the ranks of the mesh whose
\* leading coordinates are c, the next coordinate running from x.
RECURSIVE SumLocalElems(_, _, _, _)
SumLocalElems(l, scales, c, x) ==
    IF Len(c) = R THEN Prod(LocalShape(l, scales, c))
    ELSE IF x >= mesh[Len(c) + 1] THEN 0
    ELSE SumLocalElems(l, scales, Append(c, x), 0) + SumLocalElems(l, scales, c, x + 1)

\* Sum of the local extents along one axis over the coordinates 0..m-1.
RECURSIVE SumExtents(_, _, _)
SumExtents(G, block, m) ==
    IF m = 0 THEN 0 ELSE LocalExtent(G, block, m - 1) + SumExtents(G, block, m - 1)

\* C5: for every layout, mesh and positive global shape, the local element
\* counts summed over all ranks equal the global element count; along each
\* distributed axis the per-rank local extents sum to the global extent.
C5_ShapeConservation ==
    Answered =>
        \A k \in 1 .. Len(layouts) :
            LET l == layouts[k]
            IN /\ SumLocalElems(l, query.scales, << >>, 0) = Prod(GlobalShape(l, query.scales))
               /\ \A d \in Axes :
                     SumExtents(GlobalExtent(l, query.scales, d),
                                BlockAt(l, query.scales, d), l.ext_mesh[d])
                        = GlobalExtent(l, query.scales, d)

\* A rank past the cut and a rank holding a partial block both occur.
C5_Witness ==
    /\ Answered /\ R >= 1
    /\ \E k \in 1 .. Len(layouts), c \in Ranks, d \in Axes :
          LET l == layouts[k]
          IN ~l.local[d] /\ ExtCoords(l.local, c)[d] >
                GlobalExtent(l, query.scales, d) \div BlockAt(l, query.scales, d)
    /\ \E k \in 1 .. Len(layouts), c \in Ranks, d \in Axes :
          LET l == layouts[k]
              n == LocalShape(l, query.scales, c)[d]
          IN ~l.local[d] /\ n > 0 /\ n < BlockAt(l, query.scales, d)

\* C6: Distributor.buffer_size(scales) >= layout.buffer_size(scales) for every
\* layout, where layout.buffer_size is prod(local_shape) times the item size of
\* the layout's dtype (8 bytes for float64, 16 for complex128).
C6_BufferSufficiency ==
    Answered =>
        \A c \in Ranks :
            LET total == DistributorBufferSize(query.scales, c)
            IN \A k \in 1 .. Len(layouts) :
                 LET l == layouts[k]
                     bytes == Prod(LocalShape(l, query.scales, c)) *
                                 (IF l.dtype = "complex128" THEN 16 ELSE 8)
                 IN LayoutBufferSize(l, query.scales, c) = bytes /\ total >= bytes

\* The largest layout is not the coefficient layout, and layouts differ in size.
C6_Witness ==
    /\ Answered
    /\ \E c \in Ranks, k \in 1 .. Len(layouts) :
          /\ LayoutBufferSize(layouts[k], query.scales, c) >
                LayoutBufferSize(layouts[1], query.scales, c)
          /\ DistributorBufferSize(query.scales, c) =
                LayoutBufferSize(layouts[k], query.scales, c)

\* The local extent and slice the claim gives for coordinate e of m along an
\* axis of global extent G.
ClaimedExtent(G, m, e, b, cut) ==
    IF e < cut THEN b ELSE IF e = cut THEN G - cut * b ELSE 0

\* C7: along a distributed axis of global extent G over m ranks,
\* blocks = ceil(G/m) and cut = floor(G/blocks); a rank below the cut holds
\* blocks, the rank at the cut holds G - cut*blocks, ranks past it hold 0, and
\* the local slice is [coord*blocks, coord*blocks + local); G=9, m=4 gives
\* 3,3,3,0; on local axes the local extent is the global extent.
C7_BlockDistribution ==
    /\ [e \in 0 .. 3 |-> LocalExtent(9, BlockSize(9, 4), e)] = Flags(<<3, 3, 3, 0>>)
    /\ Answered =>
          \A k \in 1 .. Len(layouts), c \in Ranks :
              LET l == layouts[k]
                  ec == ExtCoords(l.local, c)
              IN \A d \in Axes :
                  LET G == GlobalExtent(l, query.scales, d)
                      m == l.ext_mesh[d]
                      e == ec[d]
                      n == LocalAt(l, query.scales, ec, d)
                      b == BlockAt(l, query.scales, d)
                  IN IF l.local[d]
                     THEN n = G /\ SliceAt(l, query.scales, ec, d) = <<0, G>>
                     ELSE /\ b * m >= G /\ (b - 1) * m < G
                          /\ \E cut \in 0 .. G :
                                /\ cut * b <= G /\ (cut + 1) * b > G
                                /\ n = ClaimedExtent(G, m, e, b, cut)
                          /\ SliceAt(l, query.scales, ec, d) = <<e * b, e * b + n>>

\* The scenario of the claim is reached: a distributed axis of global extent 9
\* over 4 ranks, the last of which is empty.
C7_Witness ==
    /\ Answered
    /\ \E k \in 1 .. Len(layouts), d \in Axes :
          LET l == layouts[k]
          IN /\ ~l.local[d] /\ l.ext_mesh[d] = 4
             /\ GlobalShape(l, query.scales)[d] = 9
             /\ \E c \in Ranks : ExtCoords(l.local, c)[d] = 3 /\
                                   LocalShape(l, query.scales, c)[d] = 0

\* ------------------------------------------------------------------ C8

\* Distance, in layouts, between the field's layout and the target of the read.
ReadDistance ==
    LET a == FieldIndex(field)
        b == LayoutAt(op.target).index
    IN IF a < b THEN b - a ELSE a - b

\* A pass of a Field call that invoked a navigation step.
NavigationPass(name) ==
    op.name = name /\ op.state = "running" /\ op'.calls = op.calls + 1

\* C8: a read field[target], the target given as a layout object or by name,
\* does not raise, returns with the field in the target layout and the view of
\* that layout, invokes no path when the field is already there, and every
\* navigation step it makes brings the field one layout closer to the target
\* (so the read ends after at most R + D steps).
C8_ReadReachesTarget ==
    /\ [](op.name = "getitem" => op.state # "raised")
    /\ [](op.name = "getitem" /\ op.state = "returned" => field.layout = op.target)
    /\ [][op.name = "getitem" /\ op.state = "running" /\ ReadDistance = 0
            => op'.calls = op.calls /\ field' = field]_vars
    /\ [][NavigationPass("getitem") => ReadDistance' = ReadDistance - 1]_vars

\* ------------------------------------------------------------------ C9

\* C9: field[layout] = data, the layout given as an object or by name, sets the
\* field's layout to that layout without invoking a path and copies data into
\* the field's view, leaving the caller's array as it was passed.
C9_WriteSetsLayoutAndData ==
    op.name = "setitem" =>
        /\ op.state = "returned"
        /\ op.calls = 0
        /\ field.layout = op.target
        /\ FieldData(field) = caller.passed
        /\ caller.data = caller.passed

\* ------------------------------------------------------------------ C10

\* The axis of a require_local call, a negative one counted from the end.
RequiredAxis == IF op.axis < 0 THEN op.axis + dim ELSE op.axis

\* C10: require_local(axis) does not raise for any axis of the domain, negative
\* axes included, returns with the axis local, does not move a field whose
\* axis is already local, moves one layout towards grid space per step for
\* axis 0 and one towards coefficient space for axis R, and keeps the layout
\* index inside 0 .. R + D.
C10_RequireLocalTerminates ==
    /\ [](op.name = "require_local" => op.state # "raised")
    /\ [](op.name = "require_local" /\ op.state = "returned"
            => LayoutAt(field.layout).local[RequiredAxis])
    /\ [][op.name = "require_local" /\ op.state = "running"
              /\ LayoutAt(field.layout).local[RequiredAxis]
            => field' = field]_vars
    /\ [][NavigationPass("require_local") =>
              /\ FieldIndex(field') \in 0 .. (R + dim)
              /\ FieldIndex(field') # FieldIndex(field)
              /\ RequiredAxis = 0 => FieldIndex(field') = FieldIndex(field) + 1
              /\ RequiredAxis = R /\ R > 0
                    => FieldIndex(field') = FieldIndex(field) - 1]_vars


\* ------------------------------------------------------------------ C11

\* C11: require_grid_space(axis) moves only towards grid space, one layout per
\* navigation step and never past the grid layout R + D, does not move at all
\* once grid_space[axis] (every axis when none is given) holds, and returns
\* with that condition true: it ends at the first layout at or after the
\* starting one that satisfies it.
C11_RequireGridSpace ==
    /\ [](op.name = "require_grid_space" /\ op.state = "returned"
            => InGridSpace(LayoutAt(field.layout), op.axis))
    /\ [][op.name = "require_grid_space" /\ op.state = "running"
              /\ InGridSpace(LayoutAt(field.layout), op.axis)
            => field' = field /\ op'.calls = op.calls]_vars
    /\ [][NavigationPass("require_grid_space") =>
              /\ FieldIndex(field') = FieldIndex(field) + 1
              /\ FieldIndex(field') <= R + dim]_vars


\* ------------------------------------------------------------------ C12

\* A read whose target is one end of the chain: a leg of the round trip
\* grid -> coeff -> grid or coeff -> grid -> coeff.
RoundTripLeg ==
    op.name = "getitem" /\ op.target \in {coeff_layout, grid_layout}

\* C12: a field walked from the grid layout to the coeff layout and back (or
\* from coeff to grid and back) ends in its original layout with its original
\* data.  Each leg is a read of an end layout: every navigation step of a leg
\* takes the field across one path, from the layout on one side of it to the
\* layout on the other, towards the target, a leg returns with the field in
\* its target layout, and a leg that starts in its target leaves the buffer
\* as it was.
C12_RoundTrip ==
    /\ [][RoundTripLeg /\ NavigationPass("getitem") =>
              \E k \in 1 .. Len(paths) :
                  {field.layout, field'.layout} = {paths[k].layout0, paths[k].layout1}]_vars
    /\ [](RoundTripLeg /\ op.state = "returned" => field.layout = op.target)
    /\ [][RoundTripLeg /\ op.state = "running" => field'.buffer = field.buffer]_vars


\* ------------------------------------------------------------------ C13

\* C13: resizing a coefficient array of size N to size S and back to N gives
\* the array itself when S >= N, and the array with modes 0 .. S-1 kept and
\* modes S .. N-1 zero when S < N; neither call modifies its input array.
C13_ResizeIdempotence ==
    /\ call.name = "resize" /\ call.step >= 1 => call.cdata_in = call.original
    /\ call.name = "resize" /\ call.step = 1 =>
          /\ Len(call.resized) = call.S
          /\ \A m \in 0 .. (call.S - 1) :
                Mode(call.resized, m) =
                    IF m < Len(call.original) THEN Mode(call.original, m) ELSE 0
    /\ call.name = "resize" /\ call.step = 2 =>
          /\ Len(call.resized) = call.S
          /\ Len(call.back) = Len(call.original)
          /\ \A m \in 0 .. (Len(call.original) - 1) :
                Mode(call.back, m) = IF m < call.S THEN Mode(call.original, m) ELSE 0

\* A truncating round trip that dropped a non-zero mode, and a padding one.
C13_Witness ==
    /\ call.name = "resize" /\ call.step = 2
    /\ call.S < Len(call.original)
    /\ Mode(call.original, Len(call.original) - 1) = 1
    /\ Mode(call.back, Len(call.original) - 1) = 0
    /\ Mode(call.back, 0) = 1


\* ------------------------------------------------------------------ C14

\* C14: a collected field is an element of the domain's free list and every
\* byte of its backing buffer is zero, behind the coefficient-layout view as
\* well as inside it.
C14_CollectClearsBuffer ==
    ~field.exists /\ field.buffer # << >> =>
        /\ \E k \in 1 .. Len(field_cache) : field_cache[k] = "F"
        /\ \A w \in 1 .. Len(field.buffer) : field.buffer[w] = 0


\* ------------------------------------------------------------------ C15

\* The entries of the mesh argument that are greater than 1, in their order.
RECURSIVE EntriesAboveOne(_)
EntriesAboveOne(m) ==
    IF m = << >> THEN << >>
    ELSE IF Head(m) <= 1 THEN EntriesAboveOne(Tail(m))
    ELSE <<Head(m)>> \o EntriesAboveOne(Tail(m))

\* The product of the entries of a mesh.
MeshProduct(m) ==
    LET P[k \in 0 .. Len(m)] == IF k = 0 THEN 1 ELSE m[k] * P[k - 1]
    IN P[Len(m)]

\* C15: the construction squeezes the entries <= 1 out of the mesh, fails
\* exactly when the squeezed mesh has R >= D or a product different from the
\* process count, creates no communicator, layout or path when it fails, and
\* otherwise goes on with the squeezed mesh.
C15_MeshChecks ==
    call.name = "Distributor" /\ pc # "init" =>
        LET squeezed == EntriesAboveOne(call.mesh)
            bad == Len(squeezed) >= dim \/ MeshProduct(squeezed) # call.size
        IN /\ mesh = squeezed
           /\ bad <=> pc = "failed"
           /\ bad => /\ call.error # "none"
                      /\ call.comm_cart = "none"
                      /\ layouts = << >> /\ paths = << >>
           /\ ~bad => /\ call.error = "none"
                       /\ call.comm_cart = squeezed
                       /\ layouts # << >>
                       /\ pc = "ready" => Len(layouts) = Len(squeezed) + dim + 1

\* The mesh [1, 1, P] on a 2-D domain with P processes, accepted with R = 1.
C15_Witness ==
    /\ call.name = "Distributor" /\ pc = "ready"
    /\ dim = 2 /\ call.mesh = <<1, 1, 3>> /\ call.size = 3
    /\ R = 1 /\ Len(paths) = 3


\* ------------------------------------------------------------------ C16

\* Every field of a list is in the layout.
AllIn(fs, layout) == \A k \in 1 .. Len(fs) : fs[k].layout = layout

SourceLayout ==
    LET p == paths[call.path]
    IN LayoutAt(IF call.dir = "increment" THEN p.layout0 ELSE p.layout1)

\* The local extents of a layout on the process of the call.
CallShape(l) == LocalShape(l, call.scales, call.coords)

\* The fields of the call are where the call takes them.
PointerUpdated ==
    LET p == paths[call.path]
    IN AllIn(fields, IF call.dir = "increment" THEN p.layout1 ELSE p.layout0)

\* C17: a Transpose on a rank that owns no elements (some local extent of the
\* source layout is zero) builds no plan, calls neither gather nor scatter and
\* only sets the layout of the fields.
C17_ZeroElementTranspose ==
    call.name = "Transpose" /\ (\E d \in Axes : CallShape(SourceLayout)[d] = 0) =>
        /\ ~call.plan
        /\ call.kernels = 0
        /\ PointerUpdated

\* C17 as the code has it: the plan is left out exactly when a local extent of
\* layout0 along an axis other than the two transposed ones (axis, axis + 1)
\* is zero; then neither gather nor scatter is called and only the layout of
\* the fields is set.  A zero extent along a transposed axis alone leaves the
\* plan in place, and gather or scatter is called.
C17_ZeroElementTranspose_Amended ==
    call.name = "Transpose" =>
        LET p == paths[call.path]
            others == Axes \ {p.axis, p.axis + 1}
            empty == \E d \in others : CallShape(LayoutAt(p.layout0))[d] = 0
        IN /\ call.plan <=> ~empty
           /\ call.kernels = 0 <=> empty
           /\ PointerUpdated

\* Both cases on ranks without elements: no plan for a zero extent along an
\* axis that is not transposed ...
C17_Witness ==
    /\ call.name = "Transpose" /\ ~call.plan /\ call.kernels = 0
    /\ \E d \in Axes \ {paths[call.path].axis, paths[call.path].axis + 1} :
          CallShape(SourceLayout)[d] = 0
    /\ PointerUpdated


\* ------------------------------------------------------------------ C18

\* A transform call has ended.
TransformCalled == call.name \in {"forward", "backward"}

\* The provided cdata does not have the coefficient size and dtype of the basis.
CdataMismatch ==
    call.cdata.given /\ (call.cdata.size # bases[0].coeff_size
                           \/ call.cdata.dtype # bases[0].coeff_dtype)

\* The grid size a provided gdata is to have: at the scale of a backward call,
\* at the base scale in a forward call.
ExpectedGridSize ==
    IF call.name = "backward" /\ ~GridSizeRaises(bases[0].base_grid_size, call.scale)
    THEN GridSize(bases[0].base_grid_size, call.scale)
    ELSE bases[0].base_grid_size

Holding ==
    {j \in 0 .. (Len(call.subbases) - 1) :
        Interval(j)[1] <= call.position /\ call.position <= Interval(j)[2]}

\* C19: interp_vector(x) raises when x is outside every subbasis interval, and
\* otherwise returns a vector of the compound coefficient size that is the
\* interp_vector(x) of the first subbasis holding x (the left one on a seam)
\* inside the block of that subbasis and zero outside it.
C19_CompoundInterpVector ==
    call.name = "interp_vector" =>
        IF Holding = {}
        THEN call.error # "none"
        ELSE LET first == CHOOSE j \in Holding : \A k \in Holding : j <= k
                 start == CoeffStart(call.subbases, first)
                 end == CoeffStart(call.subbases, first + 1)
             IN /\ call.error = "none"
                /\ Len(call.vector) = CompoundCoeffSize(call.subbases)
                /\ \A n \in 1 .. Len(call.vector) :
                      call.vector[n] =
                          IF start < n /\ n <= end
                          THEN SubInterpVector(call.subbases, first, call.position)[n - start]
                          ELSE 0


\* ------------------------------------------------------------------ C20

\* The positions in the path list of the paths of a kind along an axis.
PathsAlong(kind, d) ==
    {k \in 1 .. Len(paths) : paths[k].kind = kind /\ paths[k].axis = d}

\* C20: the axis of every Transform path is local in both of its layouts, and
\* a Transform along a distributed axis d < R comes after the Transpose along
\* d in the path list.
C20_TransformAxisLocal ==
    \A k \in 1 .. Len(paths) :
        paths[k].kind = "Transform" =>
            /\ LayoutAt(paths[k].layout0).local[paths[k].axis]
            /\ LayoutAt(paths[k].layout1).local[paths[k].axis]
            /\ paths[k].axis < R =>
                  \E j \in PathsAlong("Transpose", paths[k].axis) : j < k

\* The chain of a 3-dimensional domain on a 2-dimensional mesh is complete and
\* holds, for each distributed axis, a Transpose followed by a Transform.
C20_Witness ==
    /\ pc = "ready"
    /\ dim = 3
    /\ R = 2
    /\ \A d \in 0 .. (R - 1) :
          \E j \in PathsAlong("Transpose", d), k \in PathsAlong("Transform", d) : j < k


\* ------------------------------------------------------------------ C21

\* The Field calls that navigate.
NavigatingCalls == {"getitem", "require_grid_space", "require_coeff_space", "require_local"}

\* C21: every navigation step of a read, require_grid_space,
\* require_coeff_space or require_local call takes the field from its layout
\* index i across one path, to i + 1 over paths[i] or to i - 1 over
\* paths[i - 1], and the index stays inside 0 .. R + D.
C21_NavigationSteps ==
    /\ [](field.exists /\ pc = "ready" => FieldIndex(field) \in 0 .. (R + dim))
    /\ [][op.name \in NavigatingCalls /\ NavigationPass(op.name) =>
              LET a == FieldIndex(field)
                  b == FieldIndex(field')
              IN \/ /\ b = a + 1 /\ b <= R + dim
                    /\ paths[a + 1].layout0 = field.layout
                    /\ paths[a + 1].layout1 = field'.layout
                 \/ /\ b = a - 1 /\ b >= 0
                    /\ paths[a].layout1 = field.layout
                    /\ paths[a].layout0 = field'.layout]_vars


\* ------------------------------------------------------------------ C22

\* The positions of the log of the running Transpose call at which a step was
\* recorded for a field.
LogAt(step, f) ==
    {n \in 1 .. Len(call.log) : call.log[n].step = step /\ call.log[n].field = f}

\* The positions of the log at which the collective was recorded.
CollectiveAt == {n \in 1 .. Len(call.log) : call.log[n].step \in {"gather", "scatter"}}

\* C22: with a plan, a Transpose increment copies the field's layout0 view
\* into temp0, then runs gather, then sets the field's layout to layout1, then
\* copies temp1 into the field's layout1 view; decrement does the same with
\* temp1, scatter, layout0 and temp0.  The field is in the source layout when
\* it is read and in the target layout when it is written, and a finished
\* call has done all four steps for every field.
C22_TransposeOrder ==
    call.name = "transpose" /\ call.plan =>
        LET p == paths[call.path]
            source == SourceOf(p, call.dir)
            target == TargetLayout(p, call.dir)
        IN /\ \A n \in 1 .. Len(call.log) :
                LET e == call.log[n]
                IN /\ e.step = "copy_in" =>
                        e.layout = source /\ e.temp = TempIn(call.dir)
                   /\ e.step \in {"gather", "scatter"} =>
                        e.step = (IF call.dir = "increment" THEN "gather" ELSE "scatter")
                   /\ e.step = "set_layout" =>
                        /\ e.layout = target
                        /\ \E c \in LogAt("copy_in", e.field), g \in CollectiveAt :
                              c < g /\ g < n
                   /\ e.step = "copy_out" =>
                        /\ e.layout = target /\ e.temp = TempOut(call.dir)
                        /\ \E l \in LogAt("set_layout", e.field) : l < n
           /\ call.pos > Len(call.statements) =>
                \A f \in 1 .. Len(fields) :
                    /\ Cardinality(LogAt("copy_in", f)) = 1
                    /\ Cardinality(LogAt("set_layout", f)) = 1
                    /\ Cardinality(LogAt("copy_out", f)) = 1
                    /\ fields[f].layout = target

\* A decrement of one field has run to its end with a plan.
C22_Witness ==
    /\ call.name = "transpose"
    /\ call.plan
    /\ call.pos > Len(call.statements)
    /\ call.dir = "decrement"
    /\ call.mode = "single"
    /\ Len(call.log) = 4


\* ------------------------------------------------------------------ C23

\* Every rank of the sub-communicator has returned from the Transpose call.
AllReturned == \A c \in call.comm : call.at[c] = "returned"

NoLocalData ==
    \A k \in 1 .. Len(call.before) :
        LocalElems(call.before[k], call.scales, call.coords) = 0

\* C26: when the local shape of the fields has no elements, a Transform
\* increment or decrement calls no basis kernel and only moves the layout
\* pointer of each field, to layout1 for increment and layout0 for decrement.
C26_EmptyTransformSkipped ==
    call.name = "Transform" /\ NoLocalData =>
        /\ call.kernels = 0
        /\ \A k \in 1 .. Len(fields) :
              fields[k].layout = TargetLayout(paths[call.path], call.dir)


\* ------------------------------------------------------------------ C27

\* k_max of the claim, from the sizes of the two arrays of the call.
ClaimedKmax ==
    ((IF Len(call.cdata_in) < Len(call.cdata_out) THEN Len(call.cdata_in)
      ELSE Len(call.cdata_out)) - 1) \div 2

\* C27: for all sizes of input and output, the complex Fourier resize ends
\* without error with the input's modes 0 .. k_max in the first k_max + 1
\* entries of the output, the input's last k_max entries in the output's last
\* k_max entries, and zero in every entry between.
C27_ComplexResize ==
    call.name = "resize_complex" =>
        /\ call.error = "none"
        /\ \A j \in 1 .. Len(call.cdata_out) :
              call.cdata_out[j] =
                  IF j <= ClaimedKmax + 1 THEN call.cdata_in[j]
                  ELSE IF j > Len(call.cdata_out) - ClaimedKmax
                  THEN call.cdata_in[Len(call.cdata_in) - (Len(call.cdata_out) - j)]
                  ELSE 0


\* ------------------------------------------------------------------ C28

\* scale * N of the call, as a fraction: numerator and denominator.
ScaledN == <<call.scale[1] * bases[0].base_grid_size, call.scale[2]>>

CoupledNavigation == op.name \in {"differentiate", "coupled"}

\* The axis of the call is local, and in coefficient space, in the field's
\* layout.
AxisLocal == LayoutAt(field.layout).local[op.axis]

AxisCoeff == ~LayoutAt(field.layout).grid_space[op.axis]

\* C29: require_local(axis) followed by require_coeff_space(axis), and the
\* two in the other order, end for every axis and every starting layout,
\* without raising, in a layout where the axis is local and in coefficient
\* space: every navigation step moves the field to a neighbouring layout, and
\* the second request keeps what the first established.
C29_CoupledNavigation ==
    /\ [](CoupledNavigation => op.state # "raised")
    /\ [](CoupledNavigation /\ op.state = "returned" => AxisLocal /\ AxisCoeff)
    /\ [][CoupledNavigation /\ NavigationPass(op.name) =>
              FieldIndex(field') \in {FieldIndex(field) - 1, FieldIndex(field) + 1}
                                     \cap (0 .. (R + dim))]_vars
    /\ [][CoupledNavigation /\ op.state = "running" /\ Len(op.requests) = 1 =>
              /\ (Head(op.requests) = "require_coeff_space" /\ AxisLocal
                     => LayoutAt(field'.layout).local[op.axis])
              /\ (Head(op.requests) = "require_local" /\ AxisCoeff
                     => ~LayoutAt(field'.layout).grid_space[op.axis])]_vars


\* ------------------------------------------------------------------ C30

\* The field has been handed out by new_field and not been used since.
HandedOut == pc = "ready" /\ field.exists /\ op = NoCall

\* C30: a field returned by new_field is in the state of a newly allocated
\* field, whether it is new or comes from the free list: it is in the grid
\* layout, its data view holds zeros only, and it is not in the free list.
C30_NewFieldState ==
    HandedOut =>
        /\ field.layout = grid_layout
        /\ \A w \in 1 .. Len(FieldData(field)) : FieldData(field)[w] = 0
        /\ field_cache = << >>

====
